---- MODULE Spec2Model ----
(***************************************************************************)
(* Recording pipeline of Choome: the crash-recovery log kept by the main   *)
(* process (RecordingRecoveryService, the recording:* IPC handlers and the *)
(* storage catalog) and the recording session kept by the renderer         *)
(* (useRecording hook driven by RecordingControls).                        *)
(***************************************************************************)
EXTENDS Integers, Sequences, FiniteSets, TLC

(* ------------------------------ bounds --------------------------------- *)
MaxIds == 1        \* begin calls made on the service when it is driven directly
MaxAppends == 2    \* append calls made on the service when it is driven directly
MaxClock == 1      \* milliseconds the wall clock may advance
MaxStarts == 2     \* startRecording calls made on the hook
MaxChunks == 2     \* non-empty chunks the encoders deliver
MaxStartsBeforeUnmount == 1  \* startRecording calls made before the component unmounts

MaxSessions == 2   \* begin calls made on the service across relaunches of the app
MaxRelaunches == 2 \* times the app is launched again after its process ended
MaxSecondLaunches == 1    \* launches of a second instance while the first is running
MaxOverlaySessions == 2   \* recordings with the webcam overlay, one after the other
MaxCams == 2       \* webcam streams getUserMedia hands out
MaxPerf == 5        \* seconds that pass while the watchdog is observed
MaxNow == 2        \* seconds that pass on the clocks of the renderer

Max(a, b) == IF a > b THEN a ELSE b

MaxIdx == Max(Max(MaxIds, MaxStarts), MaxSessions)

NoId == 0

(* ------------------------------ helpers -------------------------------- *)
Put(f, k, v) == [x \in (DOMAIN f) \cup {k} |-> IF x = k THEN v ELSE f[x]]

Del(f, k) == [x \in (DOMAIN f) \ {k} |-> f[x]]

RECURSIVE Flatten(_)
Flatten(ss) == IF ss = <<>> THEN <<>> ELSE Head(ss) \o Flatten(Tail(ss))

RECURSIVE SumLen(_)
SumLen(ss) == IF ss = <<>> THEN 0 ELSE Len(Head(ss)) + SumLen(Tail(ss))

(* ------------------------- main process: storage ----------------------- *)
EXTENSION_BY_MIME ==
  [m \in {"video/webm", "video/mp4", "video/quicktime"} |->
     IF m = "video/webm" THEN "webm" ELSE IF m = "video/mp4" THEN "mp4" ELSE "mov"]

ExtensionOf(mimeType) ==
  IF mimeType \in DOMAIN EXTENSION_BY_MIME THEN EXTENSION_BY_MIME[mimeType] ELSE "webm"

MimeInputs == {"video/webm;codecs=vp9,opus", "video/mp4"}

Buffers(k) == {<<>>, IF k % 2 = 1 THEN <<k>> ELSE <<k, k>>}

Metas == {[duration |-> 0, quality |-> "1080p"], [duration |-> 2, quality |-> "720p"]}

VARIABLES
  active,      \* RecordingRecoveryService.active: recovery id -> scratch path
  scratch,     \* files of the temp directory: scratch path -> bytes
  permanent,   \* files under the storage root: path -> bytes
  catalog,     \* StorageService recordings, newest first
  inflight,    \* finalize/save calls suspended on thumbnail generation
  clock,       \* wall clock in milliseconds, as read by generateRecordingPath
  nextId,      \* next value drawn by randomUUID
  appended,    \* history: the buffers passed to append, per recovery id
  discarded,   \* history: the recovery ids discard has been called with
  sweep        \* the startup scan recoverOrphaned: its loop state

VARIABLES
  status,            \* recordingStore.status
  mounted,           \* the component using the hook is mounted
  startPc,           \* startRecording invocations: where each one is suspended
  liveStreams,       \* screen streams whose tracks have not been stopped
  screenStreamRef,   \* screenStreamRef.current (0 is null)
  streamRef,         \* streamRef.current, the combined stream (0 is null)
  webcamHiddenRef,   \* webcamHiddenRef.current
  mediaRecorderRef,  \* mediaRecorderRef.current (0 is null)
  recoveryIdRef,     \* recoveryIdRef.current (NoId is null)
  chunksRef,         \* chunksRef.current
  pendingConv,       \* chunks whose arrayBuffer() promise has not resolved
  rec,               \* the MediaRecorder objects and their onstop handlers
  owner              \* history: owner[k] is the recorder that delivered chunk k

VARIABLES
  cancelled,          \* history: the starts that were in progress when stopRecording was called
  now,                \* Date.now() of the renderer, in seconds
  startTimeRef,       \* startTimeRef.current
  pausedDurationRef,  \* pausedDurationRef.current
  timers,             \* the intervals set with setInterval and not cleared
  timerRef,           \* timerRef.current (0 is null)
  duration,           \* recordingStore.duration
  pausedFor,          \* history: seconds the current encoder has spent paused
  perf,               \* performance.now() of the renderer, in seconds
  webcamStreamRef,    \* webcamStreamRef.current (0 is null)
  liveCams,           \* webcam streams whose tracks have not been stopped
  nextCam,            \* next webcam stream handed out by getUserMedia
  animationFrameRef,  \* the startRecording call whose drawFrame is scheduled (0 is null)
  comp                \* the compositor and watchdog of each startRecording call

VARIABLES
  acq,       \* a getWebcamStream call: what the device accepts and what the call did
  overlay,   \* the placement of the webcam bubble: settings, drag state, last drawn rectangle
  audio,     \* the audio sources and tracks of each startRecording call
  reply      \* the last direct call of the recovery service and how it returned

setupVars == <<acq, overlay, audio, reply>>

timeVars == <<now, startTimeRef, pausedDurationRef, timers, timerRef, duration, pausedFor>>

camVars == <<perf, webcamStreamRef, liveCams, nextCam, animationFrameRef, comp>>

rendVars == <<status, mounted, startPc, liveStreams, screenStreamRef, streamRef,
              webcamHiddenRef, mediaRecorderRef, recoveryIdRef, chunksRef,
              pendingConv, rec, owner>>

svcVars == <<active, scratch, permanent, catalog, inflight, clock, nextId>>

histVars == <<appended, discarded>>

vars == <<active, scratch, permanent, catalog, inflight, clock, nextId, appended, discarded, sweep,
          status, mounted, startPc, liveStreams, screenStreamRef, streamRef,
          webcamHiddenRef, mediaRecorderRef, recoveryIdRef, chunksRef,
          pendingConv, rec, owner, cancelled, now, startTimeRef, pausedDurationRef,
          timers, timerRef, duration, pausedFor, perf, webcamStreamRef, liveCams,
          nextCam, animationFrameRef, comp, acq, overlay, audio, reply>>

ScratchPath(id, ext) == [id |-> id, ext |-> ext]

generateRecordingPath(extension) == [ts |-> clock, ext |-> extension]

addRecording(recording) == catalog' = <<recording>> \o catalog

(* ------------------ main process: RecordingRecoveryService ------------- *)
begin(mimeType) ==
  LET id == nextId
      filePath == ScratchPath(id, ExtensionOf(mimeType))
  IN /\ nextId' = nextId + 1
     /\ scratch' = Put(scratch, filePath, <<>>)
     /\ active' = Put(active, id, filePath)
     /\ UNCHANGED <<permanent, catalog, inflight, clock>>

appendTruncating(id, buffer) ==
  /\ IF id \in DOMAIN active
       THEN scratch' = Put(scratch, active[id], buffer)
       ELSE scratch' = scratch
  /\ UNCHANGED <<active, permanent, catalog, inflight, clock, nextId>>

\* a variant of append that opens a file for an id it does not know
appendCreating(id, buffer) ==
  /\ IF id \in DOMAIN active
       THEN LET filePath == active[id]
            IN scratch' = Put(scratch, filePath,
                              IF filePath \in DOMAIN scratch
                                THEN scratch[filePath] \o buffer
                                ELSE buffer)
       ELSE scratch' = Put(scratch, ScratchPath(id, "webm"), buffer)
  /\ UNCHANGED <<active, permanent, catalog, inflight, clock, nextId>>

append(id, buffer) ==
  /\ IF id \in DOMAIN active
       THEN LET filePath == active[id]
            IN scratch' = Put(scratch, filePath,
                              IF filePath \in DOMAIN scratch
                                THEN scratch[filePath] \o buffer
                                ELSE buffer)
       ELSE scratch' = scratch
  /\ UNCHANGED <<active, permanent, catalog, inflight, clock, nextId>>

finalizeThrows(id, renameOk) ==
  \/ id \notin DOMAIN active
  \/ ~renameOk
  \/ active[id] \notin DOMAIN scratch

\* the error finalize rejects with, if any
finalizeError(id, renameOk) ==
  IF id \notin DOMAIN active THEN "Recovery session not found"
  ELSE IF finalizeThrows(id, renameOk) THEN "rename failed"
  ELSE "none"

finalizeCopying(id, meta, renameOk, from) ==
  IF finalizeThrows(id, renameOk)
    THEN UNCHANGED svcVars
    ELSE LET filePath == active[id]
             outputPath == generateRecordingPath(filePath.ext)
         IN /\ permanent' = Put(permanent, outputPath, scratch[filePath])
            /\ active' = Del(active, id)
            /\ inflight' = inflight \cup
                 {[kind |-> "finalize", id |-> id, path |-> outputPath,
                   size |-> Len(scratch[filePath]), meta |-> meta, from |-> from]}
            /\ UNCHANGED <<scratch, catalog, clock, nextId>>

finalize(id, meta, renameOk, from) ==
  IF finalizeThrows(id, renameOk)
    THEN UNCHANGED svcVars
    ELSE LET filePath == active[id]
             outputPath == generateRecordingPath(filePath.ext)
         IN /\ permanent' = Put(permanent, outputPath, scratch[filePath])
            /\ scratch' = Del(scratch, filePath)
            /\ active' = Del(active, id)
            /\ inflight' = inflight \cup
                 {[kind |-> "finalize", id |-> id, path |-> outputPath,
                   size |-> Len(scratch[filePath]), meta |-> meta, from |-> from]}
            /\ UNCHANGED <<catalog, clock, nextId>>

MimeIncludesMp4(mimeType) == mimeType = "video/mp4"

saveRecording(bytes, mimeType, meta, writeOk, from) ==
  IF ~writeOk
    THEN UNCHANGED svcVars
    ELSE LET extension == IF MimeIncludesMp4(mimeType) THEN "mp4" ELSE "webm"
             outputPath == generateRecordingPath(extension)
         IN /\ permanent' = Put(permanent, outputPath, bytes)
            /\ inflight' = inflight \cup
                 {[kind |-> "save", id |-> NoId, path |-> outputPath,
                   size |-> Len(bytes), meta |-> meta, from |-> from]}
            /\ UNCHANGED <<active, scratch, catalog, clock, nextId>>

SavedId == 0 - (Len(catalog) + 1)

finishPersistThumbnailFatal(op, thumbOk) ==
  /\ op \in inflight
  /\ inflight' = inflight \ {op}
  /\ IF thumbOk
       THEN addRecording([id |-> IF op.kind = "save" THEN SavedId ELSE op.id, path |-> op.path,
                          duration |-> op.meta.duration, fileSize |-> op.size,
                          quality |-> op.meta.quality, thumbnail |-> thumbOk,
                          recovered |-> FALSE])
       ELSE catalog' = catalog
  /\ UNCHANGED <<active, scratch, permanent, clock, nextId>>

finishPersist(op, thumbOk) ==
  /\ op \in inflight
  /\ inflight' = inflight \ {op}
  /\ addRecording([id |-> IF op.kind = "save" THEN SavedId ELSE op.id, path |-> op.path, duration |-> op.meta.duration,
                   fileSize |-> op.size, quality |-> op.meta.quality,
                   thumbnail |-> thumbOk, recovered |-> FALSE])
  /\ UNCHANGED <<active, scratch, permanent, clock, nextId>>

FinalizedIds ==
  {op.id : op \in {o \in inflight : o.kind = "finalize"}}
    \cup {catalog[i].id : i \in {j \in DOMAIN catalog : catalog[j].id > 0}}

PathsOf(id) ==
  {op.path : op \in {o \in inflight : o.id = id}}
    \cup {catalog[i].path : i \in {j \in DOMAIN catalog : catalog[j].id = id}}

discardFinalizedToo(id) ==
  /\ IF id \in DOMAIN active /\ active[id] \in DOMAIN scratch
       THEN scratch' = Del(scratch, active[id])
       ELSE scratch' = scratch
  /\ active' = Del(active, id)
  /\ permanent' = [p \in (DOMAIN permanent) \ PathsOf(id) |-> permanent[p]]
  /\ UNCHANGED <<catalog, inflight, clock, nextId>>

discard(id) ==
  /\ IF id \in DOMAIN active /\ active[id] \in DOMAIN scratch
       THEN scratch' = Del(scratch, active[id])
       ELSE scratch' = scratch
  /\ active' = Del(active, id)
  /\ UNCHANGED <<permanent, catalog, inflight, clock, nextId>>

(* ------------------------------ initial state -------------------------- *)
NoSweep == [on |-> FALSE, entries |-> {}, probing |-> {}, found |-> 0, added |-> 0, runs |-> 0]

FreshRecorder ==
  [state |-> "none", started |-> FALSE, stopping |-> FALSE, onstop |-> "default",
   rid |-> NoId, hpc |-> "none", blob |-> <<>>, hrid |-> NoId, fin |-> "none",
   discardCalled |-> FALSE, sav |-> "none", download |-> FALSE,
   meta |-> [duration |-> 0, quality |-> "1080p"], video |-> "none", tracks |-> {}]

\* the closure of a startRecording call before its compositor is set up
NoCompositor ==
  [stage |-> "none", srcObject |-> 0, listens |-> {}, newFrame |-> FALSE,
   lastWebcamFrameAt |-> 0, webcamRefreshInFlight |-> FALSE,
   webcamRefreshCooldownUntil |-> 0, refreshPc |-> "idle", oldStream |-> 0,
   ready |-> FALSE, endedAt |-> 0 - 1, overlayQueried |-> FALSE, acquireFailed |-> FALSE]

\* no getWebcamStream call under study
NoAcquisition ==
  [caller |-> "none", device |-> <<"ok", "ok", "ok">>, done |-> FALSE,
   tried |-> <<>>, got |-> "none", error |-> "none"]

\* the bubble before anything was configured, dragged or drawn
NoOverlay == [on |-> FALSE]

\* the audio of a startRecording call before its audio block has run
NoAudio ==
  [pc |-> "none", asked |-> {}, sources |-> <<>>, tracks |-> {}, graph |-> FALSE,
   mixError |-> FALSE, failed |-> {}, toasts |-> {}]

\* no call of the recovery service has returned yet
NoReply == [op |-> "none", id |-> 0, error |-> "none", seq |-> 0]

\* the state after construction, apart from the scenario variables
InitProgram ==
  /\ active = <<>>
  /\ scratch = <<>>
  /\ permanent = <<>>
  /\ catalog = <<>>
  /\ inflight = {}
  /\ clock = 0
  /\ nextId = 1
  /\ appended = [i \in 1..MaxIdx |-> <<>>]
  /\ discarded = {}
  /\ sweep = NoSweep
  /\ status = "idle"
  /\ mounted = TRUE
  /\ startPc = <<>>
  /\ liveStreams = {}
  /\ screenStreamRef = 0
  /\ streamRef = 0
  /\ webcamHiddenRef = FALSE
  /\ mediaRecorderRef = 0
  /\ recoveryIdRef = NoId
  /\ chunksRef = <<>>
  /\ pendingConv = {}
  /\ rec = [i \in 1..MaxStarts |-> FreshRecorder]
  /\ owner = <<>>
  /\ cancelled = {}
  /\ now = 0
  /\ startTimeRef = 0
  /\ pausedDurationRef = 0
  /\ timers = {}
  /\ timerRef = 0
  /\ duration = 0
  /\ pausedFor = 0
  /\ perf = 0
  /\ webcamStreamRef = 0
  /\ liveCams = {}
  /\ nextCam = 1
  /\ animationFrameRef = 0
  /\ comp = [p \in 1..MaxStarts |-> NoCompositor]
  /\ audio = [p \in 1..MaxStarts |-> NoAudio]
  /\ reply = NoReply

Init ==
  /\ InitProgram
  /\ acq = NoAcquisition
  /\ overlay = NoOverlay

(* ------------- the recovery service driven call by call ---------------- *)
KnownIds == 1..(nextId - 1)

RECURSIVE CountCalls(_, _)
CountCalls(log, n) == IF n = 0 THEN 0 ELSE Len(log[n]) + CountCalls(log, n - 1)

Calls == CountCalls(appended, MaxIdx)

\* only a clock value that generateRecordingPath has read needs to pass
Tick ==
  /\ clock < MaxClock
  /\ \E p \in DOMAIN permanent : p.ts = clock
  /\ clock' = clock + 1
  /\ UNCHANGED <<sweep, setupVars, cancelled, timeVars, camVars, active, scratch, permanent, catalog, inflight, nextId, histVars, rendVars>>

BeginWithin(n) ==
  /\ nextId <= n
  /\ \E mimeType \in MimeInputs : begin(mimeType)
  /\ UNCHANGED <<sweep, setupVars, cancelled, timeVars, camVars, histVars, rendVars>>

CallBegin == BeginWithin(MaxIds)

CallAppend ==
  /\ Calls < MaxAppends
  /\ \E id \in KnownIds, buffer \in Buffers(Calls + 1) :
       /\ append(id, buffer)
       /\ appended' = [appended EXCEPT ![id] = Append(@, buffer)]
  /\ UNCHANGED <<sweep, setupVars, cancelled, timeVars, camVars, discarded, rendVars>>

CallFinalize ==
  /\ \E id \in KnownIds, meta \in Metas, renameOk \in BOOLEAN :
       finalize(id, meta, renameOk, 0)
  /\ UNCHANGED <<sweep, setupVars, cancelled, timeVars, camVars, histVars, rendVars>>

FinalizeDone ==
  /\ \E op \in inflight, thumbOk \in BOOLEAN : finishPersist(op, thumbOk)
  /\ UNCHANGED <<sweep, setupVars, cancelled, timeVars, camVars, histVars, rendVars>>

CallDiscard ==
  /\ \E id \in KnownIds :
       /\ discard(id)
       /\ discarded' = discarded \cup {id}
  /\ UNCHANGED <<sweep, setupVars, cancelled, timeVars, camVars, appended, rendVars>>

NextService ==
  \/ Tick
  \/ CallBegin
  \/ CallAppend
  \/ CallFinalize
  \/ FinalizeDone
  \/ CallDiscard

SpecService == Init /\ [][NextService]_vars

(* ------- the recovery service called with any id, open or not ---------- *)
\* ipcMain.handle('recording:appendRecovery') with an id of the caller's choice
CallAppendAny ==
  /\ Calls < MaxAppends
  /\ \E id \in 1..MaxIdx, buffer \in Buffers(Calls + 1) :
       /\ append(id, buffer)
       /\ appended' = [appended EXCEPT ![id] = Append(@, buffer)]
       /\ reply' = [op |-> "append", id |-> id, error |-> "none", seq |-> 1 - reply.seq]
  /\ UNCHANGED <<acq, overlay, audio>>
  /\ UNCHANGED <<sweep, cancelled, timeVars, camVars, discarded, rendVars>>

\* ipcMain.handle('recording:finalizeRecovery') with an id of the caller's choice
CallFinalizeAny ==
  /\ \E id \in 1..MaxIdx, meta \in Metas, renameOk \in BOOLEAN :
       /\ finalize(id, meta, renameOk, 0)
       /\ reply' = [op |-> "finalize", id |-> id, error |-> finalizeError(id, renameOk),
                    seq |-> 1 - reply.seq]
  /\ UNCHANGED <<acq, overlay, audio>>
  /\ UNCHANGED <<sweep, cancelled, timeVars, camVars, histVars, rendVars>>

NextServiceAny ==
  \/ Tick
  \/ CallBegin
  \/ CallAppendAny
  \/ CallFinalizeAny
  \/ FinalizeDone
  \/ CallDiscard

SpecServiceAny == Init /\ [][NextServiceAny]_vars


(* ------------- the startup scan of the scratch directory --------------- *)
\* what ffprobe reports for a file: a duration that grows with its content
ProbeDuration(bytes) == Len(bytes)

NonEmptyOrphans == {p \in DOMAIN scratch : scratch[p] # <<>>}

\* the process ends (quit or crash) and the app is launched again: the
\* services are constructed anew and the ready handler starts recoverOrphaned
Relaunch ==
  /\ ~sweep.on
  /\ sweep.runs < MaxRelaunches
  /\ active' = <<>>
  /\ inflight' = {}
  /\ sweep' = [on |-> TRUE, entries |-> DOMAIN scratch, probing |-> {},
               found |-> Cardinality(NonEmptyOrphans), added |-> 0,
               runs |-> sweep.runs + 1]
  /\ UNCHANGED <<scratch, permanent, catalog, clock, nextId, histVars, rendVars,
                 setupVars, cancelled, timeVars, camVars>>

SweepEntryCopying ==
  /\ sweep.on
  /\ sweep.probing = {}
  /\ \E filePath \in sweep.entries :
       IF filePath \notin DOMAIN scratch
         THEN /\ sweep' = [sweep EXCEPT !.on = FALSE, !.entries = {}]
              /\ UNCHANGED <<scratch, permanent>>
       ELSE IF scratch[filePath] = <<>>
         THEN /\ sweep' = [sweep EXCEPT !.entries = @ \ {filePath}]
              /\ UNCHANGED <<scratch, permanent>>
         ELSE LET outputPath == generateRecordingPath(filePath.ext)
              IN /\ permanent' = Put(permanent, outputPath, scratch[filePath])
                 /\ scratch' = scratch
                 /\ sweep' = [sweep EXCEPT
                      !.entries = @ \ {filePath},
                      !.probing = {[kind |-> "recover", from |-> filePath,
                                    path |-> outputPath,
                                    size |-> Len(scratch[filePath])]}]
  /\ UNCHANGED <<active, catalog, inflight, clock, nextId, histVars, rendVars,
                 setupVars, cancelled, timeVars, camVars>>


\* one iteration of the loop of recoverOrphaned, up to its await; statSync
\* throws for an entry that is gone since readdirSync, which ends the scan
SweepEntry ==
  /\ sweep.on
  /\ sweep.probing = {}
  /\ \E filePath \in sweep.entries :
       IF filePath \notin DOMAIN scratch
         THEN /\ sweep' = [sweep EXCEPT !.on = FALSE, !.entries = {}]
              /\ UNCHANGED <<scratch, permanent>>
       ELSE IF scratch[filePath] = <<>>
         THEN /\ sweep' = [sweep EXCEPT !.entries = @ \ {filePath}]
              /\ UNCHANGED <<scratch, permanent>>
         ELSE LET outputPath == generateRecordingPath(filePath.ext)
              IN /\ permanent' = Put(permanent, outputPath, scratch[filePath])
                 /\ scratch' = Del(scratch, filePath)
                 /\ sweep' = [sweep EXCEPT
                      !.entries = @ \ {filePath},
                      !.probing = {[kind |-> "recover", from |-> filePath,
                                    path |-> outputPath,
                                    size |-> Len(scratch[filePath])]}]
  /\ UNCHANGED <<active, catalog, inflight, clock, nextId, histVars, rendVars,
                 setupVars, cancelled, timeVars, camVars>>

\* the rest of the iteration: the probe has settled, the entry is registered
SweepProbed ==
  /\ sweep.on
  /\ \E op \in sweep.probing, probeOk \in BOOLEAN :
       /\ addRecording([id |-> SavedId, path |-> op.path,
                        duration |-> IF probeOk /\ op.path \in DOMAIN permanent
                                       THEN ProbeDuration(permanent[op.path]) ELSE 0,
                        fileSize |-> op.size, quality |-> "1080p",
                        thumbnail |-> FALSE, recovered |-> TRUE])
       /\ sweep' = [sweep EXCEPT !.probing = {}, !.added = @ + 1]
  /\ UNCHANGED <<active, scratch, permanent, inflight, clock, nextId, histVars, rendVars,
                 setupVars, cancelled, timeVars, camVars>>

\* recoverOrphaned returns and the window is created
SweepDone ==
  /\ sweep.on
  /\ sweep.entries = {}
  /\ sweep.probing = {}
  /\ sweep' = [sweep EXCEPT !.on = FALSE]
  /\ UNCHANGED <<svcVars, histVars, rendVars,
                 setupVars, cancelled, timeVars, camVars>>

NextRecovery ==
  \/ Tick
  \/ ~sweep.on /\ BeginWithin(MaxSessions)
  \/ ~sweep.on /\ CallAppend
  \/ ~sweep.on /\ CallFinalize
  \/ ~sweep.on /\ FinalizeDone
  \/ ~sweep.on /\ CallDiscard
  \/ Relaunch
  \/ SweepEntry
  \/ SweepProbed
  \/ SweepDone

SpecRecovery == Init /\ [][NextRecovery]_vars


(* ------ a second instance of the application on the same directory ----- *)
\* the application is launched again while the first instance is running:
\* nothing asks for a single-instance lock, so the ready handler of the new
\* process runs recoverOrphaned on the scratch directory the first uses
SecondInstance ==
  /\ ~sweep.on
  /\ sweep.runs < MaxSecondLaunches
  /\ sweep' = [on |-> TRUE, entries |-> DOMAIN scratch, probing |-> {},
               found |-> Cardinality(NonEmptyOrphans), added |-> 0,
               runs |-> sweep.runs + 1]
  /\ UNCHANGED <<svcVars, histVars, rendVars, setupVars, cancelled, timeVars, camVars>>

NextShared ==
  \/ Tick
  \/ BeginWithin(MaxSessions)
  \/ CallAppend
  \/ CallFinalize
  \/ FinalizeDone
  \/ SecondInstance
  \/ SweepEntry
  \/ SweepProbed
  \/ SweepDone

SpecShared == Init /\ [][NextShared]_vars


(* ----------------- renderer: useRecording and RecordingControls -------- *)
Starts == 1..MaxStarts

ChunkBytes(k) == IF k % 2 = 1 THEN <<k>> ELSE <<k, k>>

BlobBytes(blob) == Flatten([j \in DOMAIN blob |-> ChunkBytes(blob[j])])

NextChunk == Len(owner) + 1

\* duration and quality of the recording store, as captured by stopRecording
StoreMeta == [duration |-> duration, quality |-> "1080p"]

\* window.setInterval: a handle that no live interval uses, kept in timerRef
setInterval ==
  LET id == CHOOSE n \in 1..(MaxStarts + 1) :
              n \notin timers /\ \A m \in 1..(n - 1) : m \in timers
  IN timers' = timers \cup {id} /\ timerRef' = id

\* clearInterval(timerRef.current)
clearInterval == timers' = timers \ {timerRef}

\* cancelAnimationFrame and the stop of the webcam tracks, as done by the
\* stop handler and by the unmount cleanup
ReleaseCompositor ==
  /\ animationFrameRef' = 0
  /\ liveCams' = liveCams \ {webcamStreamRef}
  /\ webcamStreamRef' = 0

setStatus(s) == status' = s

\* RecordingControls: the Start button and shortcut are live while status is idle.
StartRecording ==
  /\ mounted
  /\ status = "idle"
  /\ Len(startPc) < MaxStarts
  /\ \E shouldHideWebcamWindow \in BOOLEAN :
       startPc' = Append(startPc, IF shouldHideWebcamWindow THEN "hide" ELSE "acquire")
  /\ UNCHANGED <<sweep, setupVars, cancelled, timeVars, camVars, svcVars, histVars, status, mounted, liveStreams, screenStreamRef,
                 streamRef, webcamHiddenRef, mediaRecorderRef, recoveryIdRef,
                 chunksRef, pendingConv, rec, owner>>

StartHideWebcam(p) ==
  /\ p \in DOMAIN startPc
  /\ startPc[p] = "hide"
  /\ webcamHiddenRef' = TRUE
  /\ startPc' = [startPc EXCEPT ![p] = "acquire"]
  /\ UNCHANGED <<sweep, setupVars, cancelled, timeVars, camVars, svcVars, histVars, status, mounted, liveStreams, screenStreamRef,
                 streamRef, mediaRecorderRef, recoveryIdRef, chunksRef,
                 pendingConv, rec, owner>>

StartAcquireScreen(p) ==
  /\ p \in DOMAIN startPc
  /\ startPc[p] = "acquire"
  /\ liveStreams' = liveStreams \cup {p}
  /\ screenStreamRef' = p
  /\ streamRef' = p
  /\ startPc' = [startPc EXCEPT ![p] = "begin"]
  /\ UNCHANGED <<sweep, setupVars, cancelled, timeVars, camVars, svcVars, histVars, status, mounted, webcamHiddenRef,
                 mediaRecorderRef, recoveryIdRef, chunksRef, pendingConv, rec, owner>>

\* the catch block of startRecording: when the webcam window was hidden it is
\* reopened first, and a rejected reopen leaves the block before setStatus
StartCatch ==
  IF webcamHiddenRef
    THEN \E reopenOk \in BOOLEAN :
           IF reopenOk
             THEN webcamHiddenRef' = FALSE /\ setStatus("idle")
             ELSE UNCHANGED <<webcamHiddenRef, status>>
    ELSE UNCHANGED webcamHiddenRef /\ setStatus("idle")

StartFails(p) ==
  /\ p \in DOMAIN startPc
  /\ startPc[p] \in {"hide", "acquire"}
  /\ StartCatch
  /\ startPc' = [startPc EXCEPT ![p] = "done"]
  /\ UNCHANGED <<sweep, setupVars, cancelled, timeVars, camVars, svcVars, histVars, mounted, liveStreams, screenStreamRef, streamRef,
                 mediaRecorderRef, recoveryIdRef, chunksRef, pendingConv, rec, owner>>

\* videoSourceStream when the combined stream is built: the canvas stream when
\* the compositor was set up, the screen stream otherwise
videoSourceStream(p) == IF comp[p].stage = "on" THEN "canvas" ELSE "screen"

StartBegin(p) ==
  /\ p \in DOMAIN startPc
  /\ startPc[p] = "begin"
  /\ startPc' = [startPc EXCEPT ![p] = "done"]
  /\ \E beginOk \in BOOLEAN, mimeType \in {"video/webm;codecs=vp9,opus"} :
       IF beginOk
         THEN begin(mimeType) /\ recoveryIdRef' = nextId
         ELSE UNCHANGED svcVars /\ recoveryIdRef' = NoId
  /\ \E recorderOk \in BOOLEAN :
       IF recorderOk
         THEN /\ mediaRecorderRef' = p
              /\ chunksRef' = <<>>
              /\ rec' = [rec EXCEPT ![p] = [FreshRecorder EXCEPT !.state = "recording",
                                                               !.rid = recoveryIdRef',
                                                               !.video = videoSourceStream(p),
                                                               !.tracks = audio[p].tracks]]
              /\ UNCHANGED <<status, webcamHiddenRef>>
         ELSE /\ StartCatch
              /\ UNCHANGED <<mediaRecorderRef, chunksRef, rec>>
  /\ UNCHANGED <<sweep, setupVars, cancelled, timeVars, camVars, histVars, mounted, liveStreams, screenStreamRef, streamRef,
                 pendingConv, owner>>

RecorderOnStart(i) ==
  /\ rec[i].state # "none"
  /\ ~rec[i].started
  /\ rec' = [rec EXCEPT ![i].started = TRUE]
  /\ setStatus("recording")
  /\ startTimeRef' = now
  /\ pausedDurationRef' = 0
  /\ pausedFor' = 0
  /\ setInterval
  /\ UNCHANGED <<now, duration>>
  /\ UNCHANGED <<sweep, setupVars, cancelled, camVars, svcVars, histVars, mounted, startPc, liveStreams, screenStreamRef,
                 streamRef, webcamHiddenRef, mediaRecorderRef, recoveryIdRef,
                 chunksRef, pendingConv, owner>>

\* mediaRecorder.ondataavailable for a chunk of size > 0
DeliverChunk(i) ==
  /\ rec[i].state = "recording"
  /\ rec[i].started
  /\ Len(owner) < MaxChunks
  /\ chunksRef' = Append(chunksRef, NextChunk)
  /\ owner' = Append(owner, i)
  /\ pendingConv' = IF recoveryIdRef # NoId THEN pendingConv \cup {NextChunk} ELSE pendingConv
  /\ UNCHANGED <<sweep, setupVars, cancelled, timeVars, camVars, svcVars, histVars, status, mounted, startPc, liveStreams,
                 screenStreamRef, streamRef, webcamHiddenRef, mediaRecorderRef,
                 recoveryIdRef, rec>>

\* the .then callback of event.data.arrayBuffer()
ConvertDone(k) ==
  /\ k \in pendingConv
  /\ pendingConv' = pendingConv \ {k}
  /\ append(recoveryIdRef, ChunkBytes(k))
  /\ appended' = IF recoveryIdRef \in DOMAIN appended
                   THEN [appended EXCEPT ![recoveryIdRef] = Append(@, ChunkBytes(k))]
                   ELSE appended
  /\ UNCHANGED <<sweep, setupVars, cancelled, timeVars, camVars, discarded, status, mounted, startPc, liveStreams, screenStreamRef,
                 streamRef, webcamHiddenRef, mediaRecorderRef, recoveryIdRef,
                 chunksRef, rec, owner>>

PauseRecording ==
  /\ mounted
  /\ status = "recording"
  /\ mediaRecorderRef # 0
  /\ rec[mediaRecorderRef].state = "recording"
  /\ rec' = [rec EXCEPT ![mediaRecorderRef].state = "paused"]
  /\ setStatus("paused")
  /\ clearInterval
  /\ UNCHANGED <<now, startTimeRef, pausedDurationRef, timerRef, duration, pausedFor>>
  /\ UNCHANGED <<sweep, setupVars, cancelled, camVars, svcVars, histVars, mounted, startPc, liveStreams, screenStreamRef,
                 streamRef, webcamHiddenRef, mediaRecorderRef, recoveryIdRef,
                 chunksRef, pendingConv, owner>>

ResumeRecording ==
  /\ mounted
  /\ status = "paused"
  /\ mediaRecorderRef # 0
  /\ rec[mediaRecorderRef].state = "paused"
  /\ rec' = [rec EXCEPT ![mediaRecorderRef].state = "recording"]
  /\ setStatus("recording")
  /\ setInterval
  /\ UNCHANGED <<now, startTimeRef, pausedDurationRef, duration, pausedFor>>
  /\ UNCHANGED <<sweep, setupVars, cancelled, camVars, svcVars, histVars, mounted, startPc, liveStreams, screenStreamRef,
                 streamRef, webcamHiddenRef, mediaRecorderRef, recoveryIdRef,
                 chunksRef, pendingConv, owner>>

StopRecording ==
  /\ mounted
  /\ status \in {"recording", "paused"}
  /\ IF mediaRecorderRef = 0 \/ rec[mediaRecorderRef].state = "inactive"
       THEN /\ setStatus("idle")
            /\ UNCHANGED rec
       ELSE /\ setStatus("processing")
            /\ rec' = [rec EXCEPT ![mediaRecorderRef].onstop = "persist",
                                  ![mediaRecorderRef].state = "inactive",
                                  ![mediaRecorderRef].stopping = TRUE,
                                  ![mediaRecorderRef].meta = StoreMeta]
  /\ cancelled' = cancelled \cup {p \in DOMAIN startPc : startPc[p] # "done"}
  /\ UNCHANGED <<sweep, setupVars, timeVars, camVars, svcVars, histVars, mounted, startPc, liveStreams, screenStreamRef,
                 streamRef, webcamHiddenRef, mediaRecorderRef, recoveryIdRef,
                 chunksRef, pendingConv, owner>>

\* a MediaRecorder whose tracks have all ended stops by itself
TracksEnded(i) ==
  /\ rec[i].state \in {"recording", "paused"}
  /\ i \notin liveStreams
  /\ rec' = [rec EXCEPT ![i].state = "inactive", ![i].stopping = TRUE]
  /\ UNCHANGED <<sweep, setupVars, cancelled, timeVars, camVars, svcVars, histVars, status, mounted, startPc, liveStreams,
                 screenStreamRef, streamRef, webcamHiddenRef, mediaRecorderRef,
                 recoveryIdRef, chunksRef, pendingConv, owner>>

\* the effect cleanup of the hook
Unmount ==
  /\ mounted
  /\ Len(startPc) <= MaxStartsBeforeUnmount
  /\ mounted' = FALSE
  /\ liveStreams' = liveStreams \ {streamRef, screenStreamRef}
  /\ streamRef' = 0
  /\ screenStreamRef' = 0
  /\ recoveryIdRef' = NoId
  /\ IF recoveryIdRef # NoId
       THEN discard(recoveryIdRef) /\ discarded' = discarded \cup {recoveryIdRef}
       ELSE UNCHANGED <<svcVars, discarded>>
  /\ clearInterval
  /\ ReleaseCompositor
  /\ UNCHANGED <<now, startTimeRef, pausedDurationRef, timerRef, duration, pausedFor>>
  /\ UNCHANGED <<perf, nextCam, comp>>
  /\ UNCHANGED <<sweep, setupVars, cancelled, appended, status, startPc, webcamHiddenRef, mediaRecorderRef,
                 chunksRef, pendingConv, rec, owner>>

\* Stops are user actions, more than a millisecond apart: the hook never
\* asks for two recording paths within the same clock value.
ClockFresh == \A p \in DOMAIN permanent : p.ts # clock

HandlerPersistKeepingSources(i, chunks, r) ==
  /\ ClockFresh
  /\ webcamHiddenRef' = FALSE
  /\ UNCHANGED <<liveStreams, streamRef, screenStreamRef>>
  /\ clearInterval
  /\ timerRef' = 0
  /\ ReleaseCompositor
  /\ chunksRef' = <<>>
  /\ IF recoveryIdRef # NoId
       THEN \E renameOk \in BOOLEAN :
              /\ finalize(recoveryIdRef, r.meta, renameOk, i)
              /\ rec' = [rec EXCEPT ![i] = [r EXCEPT
                           !.stopping = FALSE, !.blob = chunks, !.hrid = recoveryIdRef,
                           !.hpc = "awaitFinalize",
                           !.fin = IF finalizeThrows(recoveryIdRef, renameOk)
                                     THEN "fail" ELSE "sent"]]
       ELSE /\ UNCHANGED svcVars
            /\ rec' = [rec EXCEPT ![i] = [r EXCEPT
                         !.stopping = FALSE, !.blob = chunks, !.hpc = "blobRead"]]

\* the onstop handler installed by stopRecording, from the release of the
\* sources to its first await on persistence
HandlerPersist(i, chunks, r) ==
  /\ ClockFresh
  /\ webcamHiddenRef' = FALSE
  /\ liveStreams' = liveStreams \ {streamRef, screenStreamRef}
  /\ streamRef' = 0
  /\ screenStreamRef' = 0
  /\ clearInterval
  /\ timerRef' = 0
  /\ ReleaseCompositor
  /\ chunksRef' = <<>>
  /\ IF recoveryIdRef # NoId
       THEN \E renameOk \in BOOLEAN :
              /\ finalize(recoveryIdRef, r.meta, renameOk, i)
              /\ rec' = [rec EXCEPT ![i] = [r EXCEPT
                           !.stopping = FALSE, !.blob = chunks, !.hrid = recoveryIdRef,
                           !.hpc = "awaitFinalize",
                           !.fin = IF finalizeThrows(recoveryIdRef, renameOk)
                                     THEN "fail" ELSE "sent"]]
       ELSE /\ UNCHANGED svcVars
            /\ rec' = [rec EXCEPT ![i] = [r EXCEPT
                         !.stopping = FALSE, !.blob = chunks, !.hpc = "blobRead"]]

\* the task queued by MediaRecorder.stop(): the final dataavailable, then stop
StopTask(i) ==
  /\ rec[i].stopping
  /\ rec[i].started
  /\ \E final \in BOOLEAN :
       LET deliver == final /\ Len(owner) < MaxChunks
           chunks == IF deliver THEN Append(chunksRef, NextChunk) ELSE chunksRef
       IN /\ owner' = IF deliver THEN Append(owner, i) ELSE owner
          /\ pendingConv' = IF deliver /\ recoveryIdRef # NoId
                              THEN pendingConv \cup {NextChunk} ELSE pendingConv
          /\ IF rec[i].onstop = "default"
               THEN /\ chunksRef' = chunks
                    /\ rec' = [rec EXCEPT ![i].stopping = FALSE]
                    /\ clearInterval
                    /\ timerRef' = 0
                    /\ UNCHANGED <<svcVars, liveStreams, streamRef, screenStreamRef,
                                   webcamHiddenRef, webcamStreamRef, liveCams,
                                   animationFrameRef>>
               ELSE IF webcamHiddenRef
                 THEN /\ chunksRef' = chunks
                      /\ rec' = [rec EXCEPT ![i].stopping = FALSE, ![i].hpc = "restore"]
                      /\ UNCHANGED <<svcVars, liveStreams, streamRef, screenStreamRef,
                                     webcamHiddenRef, webcamStreamRef, liveCams,
                                     animationFrameRef, timers, timerRef>>
                 ELSE HandlerPersist(i, chunks, rec[i])
  /\ UNCHANGED <<sweep, setupVars, cancelled, histVars, status, mounted, startPc, mediaRecorderRef,
                 recoveryIdRef, now, startTimeRef, pausedDurationRef, duration, pausedFor, perf, nextCam, comp>>

HandlerRestored(i) ==
  /\ rec[i].hpc = "restore"
  /\ HandlerPersist(i, chunksRef, rec[i])
  /\ UNCHANGED <<now, startTimeRef, pausedDurationRef, duration, pausedFor, perf, nextCam, comp>>
  /\ UNCHANGED <<sweep, setupVars, cancelled, histVars, status, mounted, startPc, mediaRecorderRef, recoveryIdRef,
                 pendingConv, owner>>

HandlerFinalizeReturnNoDiscard(i) ==
  /\ rec[i].hpc = "awaitFinalize"
  /\ IF rec[i].fin = "fail"
       THEN /\ rec' = [rec EXCEPT ![i].hpc = "blobRead"]
            /\ UNCHANGED <<svcVars, discarded, status, recoveryIdRef, duration>>
       ELSE /\ \E op \in inflight, thumbOk \in BOOLEAN :
                 op.from = i /\ finishPersist(op, thumbOk)
            /\ rec' = [rec EXCEPT ![i].hpc = "done", ![i].fin = "ok"]
            /\ recoveryIdRef' = NoId
            /\ setStatus("idle")
            /\ duration' = 0
            /\ UNCHANGED discarded
  /\ UNCHANGED <<now, startTimeRef, pausedDurationRef, timers, timerRef, pausedFor>>
  /\ UNCHANGED <<sweep, setupVars, cancelled, camVars, appended, mounted, startPc, liveStreams, screenStreamRef, streamRef,
                 webcamHiddenRef, mediaRecorderRef, chunksRef, pendingConv, owner>>

HandlerFinalizeReturn(i) ==
  /\ rec[i].hpc = "awaitFinalize"
  /\ IF rec[i].fin = "fail"
       THEN /\ discard(rec[i].hrid)
            /\ discarded' = discarded \cup {rec[i].hrid}
            /\ rec' = [rec EXCEPT ![i].hpc = "awaitDiscard", ![i].discardCalled = TRUE]
            /\ UNCHANGED <<status, recoveryIdRef, duration>>
       ELSE /\ \E op \in inflight, thumbOk \in BOOLEAN :
                 op.from = i /\ finishPersist(op, thumbOk)
            /\ rec' = [rec EXCEPT ![i].hpc = "done", ![i].fin = "ok"]
            /\ recoveryIdRef' = NoId
            /\ setStatus("idle")
            /\ duration' = 0
            /\ UNCHANGED discarded
  /\ UNCHANGED <<now, startTimeRef, pausedDurationRef, timers, timerRef, pausedFor>>
  /\ UNCHANGED <<sweep, setupVars, cancelled, camVars, appended, mounted, startPc, liveStreams, screenStreamRef, streamRef,
                 webcamHiddenRef, mediaRecorderRef, chunksRef, pendingConv, owner>>

HandlerDiscardReturn(i) ==
  /\ rec[i].hpc = "awaitDiscard"
  /\ recoveryIdRef' = NoId
  /\ rec' = [rec EXCEPT ![i].hpc = "blobRead"]
  /\ UNCHANGED <<sweep, setupVars, cancelled, timeVars, camVars, svcVars, histVars, status, mounted, startPc, liveStreams,
                 screenStreamRef, streamRef, webcamHiddenRef, mediaRecorderRef,
                 chunksRef, pendingConv, owner>>

HandlerSave(i) ==
  /\ rec[i].hpc = "blobRead"
  /\ ClockFresh
  /\ \E writeOk \in BOOLEAN :
       /\ saveRecording(BlobBytes(rec[i].blob), "video/webm", rec[i].meta, writeOk, i)
       /\ rec' = [rec EXCEPT ![i].hpc = "awaitSave",
                             ![i].sav = IF writeOk THEN "sent" ELSE "fail"]
  /\ UNCHANGED <<sweep, setupVars, cancelled, timeVars, camVars, histVars, status, mounted, startPc, liveStreams, screenStreamRef,
                 streamRef, webcamHiddenRef, mediaRecorderRef, recoveryIdRef,
                 chunksRef, pendingConv, owner>>

HandlerSaveReturn(i) ==
  /\ rec[i].hpc = "awaitSave"
  /\ IF rec[i].sav = "fail"
       THEN /\ rec' = [rec EXCEPT ![i].hpc = "done", ![i].download = TRUE]
            /\ UNCHANGED svcVars
       ELSE /\ \E op \in inflight, thumbOk \in BOOLEAN :
                 op.from = i /\ finishPersist(op, thumbOk)
            /\ rec' = [rec EXCEPT ![i].hpc = "done", ![i].sav = "ok"]
  /\ setStatus("idle")
  /\ duration' = 0
  /\ UNCHANGED <<now, startTimeRef, pausedDurationRef, timers, timerRef, pausedFor>>
  /\ UNCHANGED <<sweep, setupVars, cancelled, camVars, histVars, mounted, startPc, liveStreams, screenStreamRef,
                 streamRef, webcamHiddenRef, mediaRecorderRef, recoveryIdRef,
                 chunksRef, pendingConv, owner>>

(* -------------------- the recording timer of the hook ------------------ *)
\* a second passes on both clocks of the renderer
ClockAdvance(max) ==
  /\ now < max
  /\ now' = now + 1
  /\ perf' = perf + 1
  /\ pausedFor' = IF mediaRecorderRef # 0 /\ rec[mediaRecorderRef].state = "paused"
                    THEN pausedFor + 1 ELSE pausedFor
  /\ UNCHANGED <<startTimeRef, pausedDurationRef, timers, timerRef, duration>>
  /\ UNCHANGED <<webcamStreamRef, liveCams, nextCam, animationFrameRef, comp>>
  /\ UNCHANGED <<sweep, setupVars, cancelled, svcVars, histVars, rendVars>>

TimePasses == ClockAdvance(MaxNow)

\* the callback of a live interval
TimerFire ==
  /\ timers # {}
  /\ duration' = now - startTimeRef - pausedDurationRef
  /\ UNCHANGED <<now, startTimeRef, pausedDurationRef, timers, timerRef, pausedFor>>
  /\ UNCHANGED <<sweep, setupVars, cancelled, camVars, svcVars, histVars, rendVars>>

\* one session from start to stop, with the clock running
NextTimer ==
  \/ startPc = <<>> /\ StartRecording
  \/ \E p \in Starts : StartAcquireScreen(p)
  \/ \E p \in Starts : StartBegin(p)
  \/ \E i \in Starts : RecorderOnStart(i)
  \/ PauseRecording
  \/ ResumeRecording
  \/ TimePasses
  \/ TimerFire
  \/ StopRecording
  \/ \E i \in Starts : StopTask(i)
  \/ \E i \in Starts : HandlerFinalizeReturn(i)
  \/ \E i \in Starts : HandlerDiscardReturn(i)
  \/ \E i \in Starts : HandlerSave(i)
  \/ \E i \in Starts : HandlerSaveReturn(i)

SpecTimer == Init /\ [][NextTimer]_vars


(* ------------- the webcam compositor and its watchdog ------------------ *)
STALE_AFTER == 2   \* seconds without a new webcam frame before a reacquire

COOLDOWN == 5      \* seconds after a reacquire during which none starts

\* webcamConstraintOptions: preferred resolution, reduced resolution, device default
webcamConstraintOptions == <<"ideal1280x720", "ideal640x360", "deviceDefault">>

\* what getUserMedia answers to each constraint set: a stream or an error
Devices == [1..Len(webcamConstraintOptions) -> {"ok", "NotFoundError", "OverconstrainedError"}]

RECURSIVE tryConstraints(_, _, _, _)
\* the loop of getWebcamStream from constraint set k on
tryConstraints(device, k, tried, lastError) ==
  IF k > Len(webcamConstraintOptions)
    THEN [tried |-> tried, got |-> "none", error |-> lastError]
    ELSE IF device[k] = "ok"
      THEN [tried |-> Append(tried, webcamConstraintOptions[k]),
            got |-> webcamConstraintOptions[k], error |-> "none"]
      ELSE tryConstraints(device, k + 1, Append(tried, webcamConstraintOptions[k]), device[k])

\* a variant that goes on to the later constraint sets after a success
getWebcamStreamTryingAll(device) ==
  LET ok == {k \in DOMAIN device : device[k] = "ok"}
      all == [k \in DOMAIN device |-> webcamConstraintOptions[k]]
  IN IF ok = {}
       THEN [tried |-> all, got |-> "none", error |-> device[Len(webcamConstraintOptions)]]
       ELSE [tried |-> all,
             got |-> webcamConstraintOptions[CHOOSE k \in ok : \A j \in ok : j <= k],
             error |-> "none"]

getWebcamStream(device) == tryConstraints(device, 1, <<>>, "none")

\* what a getWebcamStream call can come back with, over all devices
Acquirable == {getWebcamStream(device).got : device \in Devices}

\* a getWebcamStream call on its own: by the start or by the watchdog, on a
\* device that answers each constraint set in some way
InitAcquire ==
  /\ InitProgram
  /\ overlay = NoOverlay
  /\ acq \in {[NoAcquisition EXCEPT !.caller = c, !.device = d] :
                c \in {"start", "refresh"}, d \in Devices}

CallGetWebcamStream ==
  /\ acq.caller # "none"
  /\ ~acq.done
  /\ LET r == getWebcamStream(acq.device)
     IN acq' = [acq EXCEPT !.done = TRUE, !.tried = r.tried, !.got = r.got, !.error = r.error]
  /\ UNCHANGED <<overlay, audio, reply>>
  /\ UNCHANGED <<sweep, cancelled, timeVars, camVars, svcVars, histVars, rendVars>>

NextAcquire == CallGetWebcamStream

SpecAcquire == InitAcquire /\ [][NextAcquire]_vars

\* a variant of the start that leaves the webcam handle as it is when the
\* overlay cannot be set up
StartWebcamKeepingHandle(p) ==
  /\ p \in DOMAIN startPc
  /\ startPc[p] = "begin"
  /\ comp[p].stage = "none"
  /\ \E cfgOk \in BOOLEAN, got \in Acquirable :
       IF cfgOk /\ got # "none"
         THEN /\ nextCam <= MaxCams
              /\ nextCam' = nextCam + 1
              /\ liveCams' = liveCams \cup {nextCam}
              /\ webcamStreamRef' = nextCam
              /\ comp' = [comp EXCEPT ![p].stage = "playing", ![p].srcObject = nextCam,
                                      ![p].overlayQueried = TRUE]
         ELSE /\ comp' = [comp EXCEPT ![p].stage = "failed",
                                      ![p].overlayQueried = TRUE,
                                      ![p].acquireFailed = cfgOk]
              /\ UNCHANGED <<nextCam, liveCams, webcamStreamRef>>
  /\ UNCHANGED <<perf, animationFrameRef>>
  /\ UNCHANGED <<sweep, setupVars, cancelled, timeVars, svcVars, histVars, rendVars>>

\* startRecording with the webcam included: getWebcamOverlayConfig, then
\* getWebcamStream, and the catch that falls back to screen-only
StartWebcam(p) ==
  /\ p \in DOMAIN startPc
  /\ startPc[p] = "begin"
  /\ comp[p].stage = "none"
  /\ \E cfgOk \in BOOLEAN, got \in Acquirable :
       IF cfgOk /\ got # "none"
         THEN /\ nextCam <= MaxCams
              /\ nextCam' = nextCam + 1
              /\ liveCams' = liveCams \cup {nextCam}
              /\ webcamStreamRef' = nextCam
              /\ comp' = [comp EXCEPT ![p].stage = "playing", ![p].srcObject = nextCam,
                                      ![p].overlayQueried = TRUE]
         ELSE /\ liveCams' = liveCams \ {webcamStreamRef}
              /\ webcamStreamRef' = 0
              /\ comp' = [comp EXCEPT ![p].stage = "failed",
                                      ![p].overlayQueried = TRUE,
                                      ![p].acquireFailed = cfgOk]
              /\ UNCHANGED nextCam
  /\ UNCHANGED <<perf, animationFrameRef>>
  /\ UNCHANGED <<sweep, setupVars, cancelled, timeVars, svcVars, histVars, rendVars>>

\* startRecording after both videos play and hold a frame: the canvas (the
\* catch again when it has no 2d context), the watchdog's variables, the
\* listeners on the initial track, and the first drawFrame
StartCompositor(p) ==
  /\ p \in DOMAIN startPc
  /\ startPc[p] = "begin"
  /\ comp[p].stage = "playing"
  /\ \E ctxOk \in BOOLEAN :
       IF ctxOk
         THEN /\ comp' = [comp EXCEPT ![p].stage = "on",
                                      ![p].ready = TRUE,
                                      ![p].listens = {comp[p].srcObject},
                                      ![p].lastWebcamFrameAt = perf,
                                      ![p].webcamRefreshInFlight = FALSE,
                                      ![p].webcamRefreshCooldownUntil = 0]
              /\ animationFrameRef' = p
              /\ UNCHANGED <<webcamStreamRef, liveCams>>
         ELSE /\ liveCams' = liveCams \ {webcamStreamRef}
              /\ webcamStreamRef' = 0
              /\ comp' = [comp EXCEPT ![p].stage = "failed"]
              /\ UNCHANGED animationFrameRef
  /\ UNCHANGED <<perf, nextCam>>
  /\ UNCHANGED <<sweep, setupVars, cancelled, timeVars, svcVars, histVars, rendVars>>

\* a variant of the guard that lets a trigger through during the cooldown
refreshWebcamStreamIgnoringCooldown(c) ==
  IF c.webcamRefreshInFlight
    THEN c
    ELSE [c EXCEPT !.webcamRefreshInFlight = TRUE, !.refreshPc = "acquiring"]

\* refreshWebcamStream up to its first await, as a change of one closure
refreshWebcamStream(c) ==
  IF c.webcamRefreshInFlight \/ perf < c.webcamRefreshCooldownUntil
    THEN c
    ELSE [c EXCEPT !.webcamRefreshInFlight = TRUE, !.refreshPc = "acquiring"]

\* the webcam delivers a frame to the video element of the compositor
WebcamFrame(p) ==
  /\ comp[p].stage = "on"
  /\ comp[p].srcObject \in liveCams
  /\ ~comp[p].newFrame
  /\ comp' = [comp EXCEPT ![p].newFrame = TRUE, ![p].ready = TRUE]
  /\ UNCHANGED <<perf, webcamStreamRef, liveCams, nextCam, animationFrameRef>>
  /\ UNCHANGED <<sweep, setupVars, cancelled, timeVars, svcVars, histVars, rendVars>>

\* a variant of the staleness test that fires at two seconds already
IsStaleFromTwo(c) == perf - c.lastWebcamFrameAt >= STALE_AFTER

\* performance.now() - lastWebcamFrameAt > 2000
IsStale(c) == perf - c.lastWebcamFrameAt > STALE_AFTER

\* drawFrame, run by requestAnimationFrame
drawFrame(p) ==
  /\ animationFrameRef = p
  /\ comp[p].stage = "on"
  /\ LET c == comp[p]
     IN comp' = [comp EXCEPT ![p] =
          IF ~c.ready
            THEN c
            ELSE IF c.newFrame
              THEN [c EXCEPT !.newFrame = FALSE, !.lastWebcamFrameAt = perf]
              ELSE IF IsStale(c)
                THEN refreshWebcamStream(c)
                ELSE c]
  /\ animationFrameRef' = p
  /\ UNCHANGED <<perf, webcamStreamRef, liveCams, nextCam>>
  /\ UNCHANGED <<sweep, setupVars, cancelled, timeVars, svcVars, histVars, rendVars>>

\* an 'ended' or 'mute' event on a track the closure listens to
TrackEvent(p) ==
  /\ comp[p].stage = "on"
  /\ \E s \in comp[p].listens \cap liveCams, ended \in BOOLEAN :
       liveCams' = IF ended THEN liveCams \ {s} ELSE liveCams
  /\ comp' = [comp EXCEPT ![p] = refreshWebcamStream(comp[p])]
  /\ UNCHANGED <<perf, webcamStreamRef, nextCam, animationFrameRef>>
  /\ UNCHANGED <<sweep, setupVars, cancelled, timeVars, svcVars, histVars, rendVars>>

\* a variant of the reacquire that stops the old stream first and installs
\* the new one after that
RefreshAcquiredReleasingFirst(p) ==
  /\ comp[p].refreshPc = "acquiring"
  /\ \E got \in Acquirable :
       IF got # "none"
         THEN /\ nextCam <= MaxCams
              /\ nextCam' = nextCam + 1
              /\ liveCams' = (liveCams \ {webcamStreamRef}) \cup {nextCam}
              /\ webcamStreamRef' = nextCam
              /\ comp' = [comp EXCEPT ![p].oldStream = 0,
                                      ![p].listens = @ \cup {nextCam},
                                      ![p].srcObject = nextCam,
                                      ![p].ready = FALSE,
                                      ![p].newFrame = FALSE,
                                      ![p].refreshPc = "playing"]
         ELSE /\ comp' = [comp EXCEPT ![p].lastWebcamFrameAt = perf,
                                      ![p].webcamRefreshCooldownUntil = perf + COOLDOWN,
                                      ![p].webcamRefreshInFlight = FALSE,
                                      ![p].endedAt = perf,
                                      ![p].refreshPc = "idle"]
              /\ UNCHANGED <<webcamStreamRef, liveCams, nextCam>>
  /\ UNCHANGED <<perf, animationFrameRef>>
  /\ UNCHANGED <<sweep, setupVars, cancelled, timeVars, svcVars, histVars, rendVars>>

\* a variant of the reacquire that gives up the installed stream when no
\* constraint set is accepted
RefreshAcquiredDroppingOnFailure(p) ==
  /\ comp[p].refreshPc = "acquiring"
  /\ \E got \in Acquirable :
       IF got # "none"
         THEN /\ nextCam <= MaxCams
              /\ nextCam' = nextCam + 1
              /\ liveCams' = liveCams \cup {nextCam}
              /\ webcamStreamRef' = nextCam
              /\ comp' = [comp EXCEPT ![p].oldStream = webcamStreamRef,
                                      ![p].listens = @ \cup {nextCam},
                                      ![p].srcObject = nextCam,
                                      ![p].ready = FALSE,
                                      ![p].newFrame = FALSE,
                                      ![p].refreshPc = "playing"]
         ELSE /\ comp' = [comp EXCEPT ![p].lastWebcamFrameAt = perf,
                                      ![p].webcamRefreshCooldownUntil = perf + COOLDOWN,
                                      ![p].webcamRefreshInFlight = FALSE,
                                      ![p].endedAt = perf,
                                      ![p].refreshPc = "idle"]
              /\ liveCams' = liveCams \ {webcamStreamRef}
              /\ webcamStreamRef' = 0
              /\ UNCHANGED nextCam
  /\ UNCHANGED <<perf, animationFrameRef>>
  /\ UNCHANGED <<sweep, setupVars, cancelled, timeVars, svcVars, histVars, rendVars>>

\* refreshWebcamStream when getWebcamStream has settled
RefreshAcquired(p) ==
  /\ comp[p].refreshPc = "acquiring"
  /\ \E got \in Acquirable :
       IF got # "none"
         THEN /\ nextCam <= MaxCams
              /\ nextCam' = nextCam + 1
              /\ liveCams' = liveCams \cup {nextCam}
              /\ webcamStreamRef' = nextCam
              /\ comp' = [comp EXCEPT ![p].oldStream = webcamStreamRef,
                                      ![p].listens = @ \cup {nextCam},
                                      ![p].srcObject = nextCam,
                                      ![p].ready = FALSE,
                                      ![p].newFrame = FALSE,
                                      ![p].refreshPc = "playing"]
         ELSE /\ comp' = [comp EXCEPT ![p].lastWebcamFrameAt = perf,
                                      ![p].webcamRefreshCooldownUntil = perf + COOLDOWN,
                                      ![p].webcamRefreshInFlight = FALSE,
                                      ![p].endedAt = perf,
                                      ![p].refreshPc = "idle"]
              /\ UNCHANGED <<webcamStreamRef, liveCams, nextCam>>
  /\ UNCHANGED <<perf, animationFrameRef>>
  /\ UNCHANGED <<sweep, setupVars, cancelled, timeVars, svcVars, histVars, rendVars>>

\* refreshWebcamStream after webcamVideo.play() resolved: the old stream is
\* stopped
RefreshPlayed(p) ==
  /\ comp[p].refreshPc = "playing"
  /\ liveCams' = liveCams \ {comp[p].oldStream}
  /\ comp' = [comp EXCEPT ![p].lastWebcamFrameAt = perf,
                          ![p].webcamRefreshCooldownUntil = perf + COOLDOWN,
                          ![p].webcamRefreshInFlight = FALSE,
                          ![p].endedAt = perf,
                          ![p].ready = TRUE,
                          ![p].newFrame = TRUE,
                          ![p].refreshPc = "idle",
                          ![p].oldStream = 0]
  /\ UNCHANGED <<perf, webcamStreamRef, nextCam, animationFrameRef>>
  /\ UNCHANGED <<sweep, setupVars, cancelled, timeVars, svcVars, histVars, rendVars>>

\* the video element loses its current frame after the track it plays ended
VideoEnds(p) ==
  /\ comp[p].stage = "on"
  /\ comp[p].srcObject \notin liveCams
  /\ comp[p].ready
  /\ comp' = [comp EXCEPT ![p].ready = FALSE]
  /\ UNCHANGED <<perf, webcamStreamRef, liveCams, nextCam, animationFrameRef>>
  /\ UNCHANGED <<sweep, setupVars, cancelled, timeVars, svcVars, histVars, rendVars>>

\* sessions recorded with the webcam overlay, at one instant of the clock:
\* the reacquires are those the track events trigger, and the footage is
\* persisted through the recovery file (finalize or discard)
NextWebcam ==
  \/ StartRecording
  \/ \E p \in Starts : StartAcquireScreen(p)
  \/ \E p \in Starts : StartWebcam(p)
  \/ \E p \in Starts : StartCompositor(p)
  \/ \E p \in Starts : comp[p].stage # "playing" /\ StartBegin(p)
  \/ \E i \in Starts : RecorderOnStart(i)
  \/ \E p \in Starts : TrackEvent(p)
  \/ \E p \in Starts : RefreshAcquired(p)
  \/ \E p \in Starts : RefreshPlayed(p)
  \/ StopRecording
  \/ \E i \in Starts : StopTask(i)
  \/ \E i \in Starts : HandlerFinalizeReturn(i)
  \/ \E i \in Starts : HandlerDiscardReturn(i)

SpecWebcam == Init /\ [][NextWebcam]_vars

\* one session with the webcam overlay and the clock running, up to its stop
NextWatchdog ==
  \/ startPc = <<>> /\ StartRecording
  \/ \E p \in Starts : StartAcquireScreen(p)
  \/ \E p \in Starts : StartWebcam(p)
  \/ \E p \in Starts : StartCompositor(p)
  \/ \E p \in Starts : comp[p].stage # "playing" /\ StartBegin(p)
  \/ \E i \in Starts : RecorderOnStart(i)
  \/ \E p \in Starts : WebcamFrame(p)
  \/ \E p \in Starts : drawFrame(p)
  \/ \E p \in Starts : TrackEvent(p)
  \/ \E p \in Starts : VideoEnds(p)
  \/ \E p \in Starts : RefreshAcquired(p)
  \/ \E p \in Starts : RefreshPlayed(p)
  \/ ClockAdvance(MaxPerf)
  \/ StopRecording
  \/ \E i \in Starts : StopTask(i)

SpecWatchdog == Init /\ [][NextWatchdog]_vars

\* the same, with requestAnimationFrame running the scheduled drawFrame
SpecWatchdogFair == SpecWatchdog /\ \A p \in Starts : WF_vars(drawFrame(p))


(* ------------------- the audio of a recording -------------------------- *)
\* a variant of the mixing that falls back to the source acquired last
mixAudioFallingBackToLast(audioStreams, mixOk, contextMade) ==
  IF Len(audioStreams) = 0
    THEN [tracks |-> {}, graph |-> FALSE, mixError |-> FALSE]
    ELSE IF Len(audioStreams) = 1
      THEN [tracks |-> {audioStreams[1]}, graph |-> FALSE, mixError |-> FALSE]
      ELSE IF mixOk
        THEN [tracks |-> {"mixed"}, graph |-> TRUE, mixError |-> FALSE]
        ELSE [tracks |-> {audioStreams[Len(audioStreams)]}, graph |-> contextMade,
              mixError |-> TRUE]

\* the audio tracks added to the combined stream, whether an AudioContext is
\* held, and whether building the graph threw (before or after the context
\* was stored in audioContextRef)
mixAudio(audioStreams, mixOk, contextMade) ==
  IF Len(audioStreams) = 0
    THEN [tracks |-> {}, graph |-> FALSE, mixError |-> FALSE]
    ELSE IF Len(audioStreams) = 1
      THEN [tracks |-> {audioStreams[1]}, graph |-> FALSE, mixError |-> FALSE]
      ELSE IF mixOk
        THEN [tracks |-> {"mixed"}, graph |-> TRUE, mixError |-> FALSE]
        ELSE [tracks |-> {audioStreams[1]}, graph |-> contextMade, mixError |-> TRUE]

\* startRecording: system audio, when included and not muted; getDisplayMedia
\* throws, or gives a stream with or without audio tracks
StartSystemAudio(p) ==
  /\ p \in DOMAIN startPc
  /\ startPc[p] = "begin"
  /\ audio[p].pc = "none"
  /\ \E wanted \in BOOLEAN, outcome \in {"tracks", "notracks", "throws"} :
       audio' = [audio EXCEPT ![p].pc = "mic",
                              ![p].asked = IF wanted THEN {"system"} ELSE {},
                              ![p].sources = IF wanted /\ outcome = "tracks"
                                               THEN <<"system">> ELSE <<>>,
                              ![p].failed = IF wanted /\ outcome = "throws"
                                              THEN {"system"} ELSE {},
                              ![p].toasts = IF wanted /\ outcome = "throws"
                                              THEN {"System audio unavailable"} ELSE {}]
  /\ UNCHANGED <<acq, overlay, reply>>
  /\ UNCHANGED <<sweep, cancelled, timeVars, camVars, svcVars, histVars, rendVars>>

\* a variant in which a refused microphone ends the start in its catch
StartMicrophoneFatal(p) ==
  /\ p \in DOMAIN startPc
  /\ startPc[p] = "begin"
  /\ audio[p].pc = "mic"
  /\ \E wanted \in BOOLEAN, micOk \in BOOLEAN, mixOk \in BOOLEAN, contextMade \in BOOLEAN :
       IF wanted /\ ~micOk
         THEN /\ audio' = [audio EXCEPT ![p].pc = "done", ![p].asked = @ \cup {"mic"},
                                        ![p].failed = @ \cup {"mic"}]
              /\ startPc' = [startPc EXCEPT ![p] = "done"]
              /\ StartCatch
         ELSE /\ LET audioStreams == IF wanted THEN Append(audio[p].sources, "mic")
                                                ELSE audio[p].sources
                     m == mixAudio(audioStreams, mixOk, contextMade)
                 IN audio' = [audio EXCEPT ![p].pc = "done",
                                           ![p].asked = IF wanted THEN @ \cup {"mic"} ELSE @,
                                           ![p].sources = audioStreams,
                                           ![p].tracks = m.tracks,
                                           ![p].graph = m.graph,
                                           ![p].mixError = m.mixError]
              /\ UNCHANGED <<startPc, status, webcamHiddenRef>>
  /\ UNCHANGED <<acq, overlay, reply>>
  /\ UNCHANGED <<sweep, cancelled, timeVars, camVars, svcVars, histVars, mounted, liveStreams,
                 screenStreamRef, streamRef, mediaRecorderRef, recoveryIdRef, chunksRef,
                 pendingConv, rec, owner>>

\* startRecording: the microphone, when included and not muted, and then the
\* audio tracks of the combined stream
StartMicrophone(p) ==
  /\ p \in DOMAIN startPc
  /\ startPc[p] = "begin"
  /\ audio[p].pc = "mic"
  /\ \E wanted \in BOOLEAN, micOk \in BOOLEAN, mixOk \in BOOLEAN, contextMade \in BOOLEAN :
       LET audioStreams == IF wanted /\ micOk THEN Append(audio[p].sources, "mic")
                                              ELSE audio[p].sources
           m == mixAudio(audioStreams, mixOk, contextMade)
       IN audio' = [audio EXCEPT ![p].pc = "done",
                                 ![p].asked = IF wanted THEN @ \cup {"mic"} ELSE @,
                                 ![p].sources = audioStreams,
                                 ![p].tracks = m.tracks,
                                 ![p].graph = m.graph,
                                 ![p].mixError = m.mixError,
                                 ![p].failed = @ \cup (IF wanted /\ ~micOk THEN {"mic"} ELSE {})
                                                 \cup (IF m.mixError THEN {"mix"} ELSE {}),
                                 ![p].toasts = IF wanted /\ ~micOk
                                                 THEN @ \cup {"Microphone unavailable"}
                                                 ELSE @]
  /\ UNCHANGED <<acq, overlay, reply>>
  /\ UNCHANGED <<sweep, cancelled, timeVars, camVars, svcVars, histVars, rendVars>>

\* one session with its audio, from start to stop
NextAudio ==
  \/ startPc = <<>> /\ StartRecording
  \/ \E p \in Starts : StartAcquireScreen(p)
  \/ \E p \in Starts : StartSystemAudio(p)
  \/ \E p \in Starts : StartMicrophone(p)
  \/ \E p \in Starts : audio[p].pc = "done" /\ StartBegin(p)
  \/ \E i \in Starts : RecorderOnStart(i)
  \/ StopRecording
  \/ \E i \in Starts : StopTask(i)
  \/ \E i \in Starts : HandlerFinalizeReturn(i)
  \/ \E i \in Starts : HandlerDiscardReturn(i)

SpecAudio == Init /\ [][NextAudio]_vars


(* ------------------- the placement of the webcam bubble ---------------- *)
\* Math.round(n / d) for d > 0
Round(n, d) == (2 * n + d) \div (2 * d)

Min(a, b) == IF a < b THEN a ELSE b

\* a position that is set, in pixels or as a ratio in units of 1 / RatioUnit
Pos(x, y) == [set |-> TRUE, x |-> x, y |-> y]

\* a position that is absent (null or undefined)
NoPos == [set |-> FALSE, x |-> 0, y |-> 0]

RatioUnit == 2     \* ratios are counted in halves

Sources == {"screen:1", "window:7"}

\* the ratios a drag reports and positionBySource stores
Ratios == {Pos(0, 0), Pos(1, 2)}

\* the display the webcam window is on, and the size preset of the bubble
DisplayBounds == [width |-> 30, height |-> 26]

SizePreset == [width |-> 4, height |-> 4]

EdgeMargin == 20   \* distance the default position keeps from the right and bottom edge

\* the sizes of the captured video the canvas takes
Canvases == {[width |-> 30, height |-> 26], [width |-> 15, height |-> 26],
             [width |-> 23, height |-> 26]}

\* getWebcamOverlayConfig: per-display position, else the fallback position
getWebcamOverlayConfig(displayId, webcam) ==
  LET perDisplayPosition == IF displayId THEN webcam.positionByDisplay ELSE NoPos
      defaultPosition ==
        Pos(Max(0, DisplayBounds.width - SizePreset.width - EdgeMargin),
            Max(0, DisplayBounds.height - SizePreset.height - EdgeMargin))
      fallbackPosition ==
        IF displayId THEN defaultPosition
        ELSE IF webcam.position.set THEN webcam.position ELSE defaultPosition
      bounds == IF perDisplayPosition.set THEN perDisplayPosition ELSE fallbackPosition
  IN [x |-> bounds.x, y |-> bounds.y,
      width |-> SizePreset.width, height |-> SizePreset.height,
      shape |-> webcam.shape,
      displayWidth |-> DisplayBounds.width, displayHeight |-> DisplayBounds.height]

\* adjustedOverlayConfig: the configuration scaled from the display to the canvas
adjustedOverlayConfig(overlayConfig, canvas) ==
  [overlayConfig EXCEPT
     !.x = Round(overlayConfig.x * canvas.width, overlayConfig.displayWidth),
     !.y = Round(overlayConfig.y * canvas.height, overlayConfig.displayHeight),
     !.width = Max(1, Round(overlayConfig.width * canvas.width, overlayConfig.displayWidth)),
     !.height = Max(1, Round(overlayConfig.height * canvas.height, overlayConfig.displayHeight))]

\* a variant that takes the position of the configuration as it is stored
placeBubbleUnclamped(canvas, adjusted, effectivePosition) ==
  LET pipWidth == Min(adjusted.width, canvas.width)
      pipHeight == Min(adjusted.height, canvas.height)
      maxX == Max(0, canvas.width - pipWidth)
      maxY == Max(0, canvas.height - pipHeight)
  IN IF effectivePosition.set
       THEN [x |-> Min(Max(Round(effectivePosition.x * maxX, RatioUnit), 0), maxX),
             y |-> Min(Max(Round(effectivePosition.y * maxY, RatioUnit), 0), maxY),
             width |-> pipWidth, height |-> pipHeight]
       ELSE [x |-> adjusted.x, y |-> adjusted.y, width |-> pipWidth, height |-> pipHeight]

\* drawFrame up to the position: the rectangle of the configuration, moved to
\* livePosition ?? sourcePosition when there is one
placeBubble(canvas, adjusted, effectivePosition) ==
  LET pipWidth == Min(adjusted.width, canvas.width)
      pipHeight == Min(adjusted.height, canvas.height)
      maxX == Max(0, canvas.width - pipWidth)
      maxY == Max(0, canvas.height - pipHeight)
  IN IF effectivePosition.set
       THEN [x |-> Min(Max(Round(effectivePosition.x * maxX, RatioUnit), 0), maxX),
             y |-> Min(Max(Round(effectivePosition.y * maxY, RatioUnit), 0), maxY),
             width |-> pipWidth, height |-> pipHeight]
       ELSE [x |-> Min(Max(adjusted.x, 0), canvas.width - pipWidth),
             y |-> Min(Max(adjusted.y, 0), canvas.height - pipHeight),
             width |-> pipWidth, height |-> pipHeight]

\* a variant of the circle that keeps the corner of the rectangle
shapeBubbleAtCorner(placed, webcamShape) ==
  IF webcamShape = "circle"
    THEN LET diameter == Min(placed.width, placed.height)
         IN [x |-> placed.x, y |-> placed.y, width |-> diameter, height |-> diameter]
    ELSE placed

\* drawFrame after the position: the square of a circular bubble
shapeBubble(placed, webcamShape) ==
  IF webcamShape = "circle"
    THEN LET diameter == Min(placed.width, placed.height)
         IN [x |-> placed.x + Round(placed.width - diameter, 2),
             y |-> placed.y + Round(placed.height - diameter, 2),
             width |-> diameter, height |-> diameter]
    ELSE placed

\* livePosition ?? sourcePosition
effectivePosition(livePosition, sourcePosition) ==
  IF livePosition.set THEN livePosition ELSE sourcePosition

\* the settings and the canvas a session may find
InitOverlay ==
  /\ InitProgram
  /\ acq = NoAcquisition
  /\ \E canvas \in Canvases, shape \in {"circle", "rounded"}, displayId \in BOOLEAN,
        byDisplay \in {NoPos, Pos(3, 5), Pos(40, 0 - 7)}, position \in {NoPos, Pos(8, 1)},
        bySource \in [Sources -> Ratios \cup {NoPos}] :
       overlay = [on |-> FALSE, canvas |-> canvas, displayId |-> displayId,
                  webcam |-> [shape |-> shape, positionByDisplay |-> byDisplay,
                              position |-> position, positionBySource |-> bySource],
                  selectedSource |-> "screen:1", dragging |-> FALSE,
                  livePositionRef |-> NoPos, sessions |-> 0, eventSinceStart |-> FALSE,
                  source |-> "screen:1", sourcePosition |-> NoPos,
                  adjusted |-> adjustedOverlayConfig(getWebcamOverlayConfig(FALSE,
                                 [shape |-> shape, positionByDisplay |-> byDisplay,
                                  position |-> position]), canvas),
                  drawn |-> FALSE, placed |-> [x |-> 0, y |-> 0, width |-> 0, height |-> 0],
                  rect |-> [x |-> 0, y |-> 0, width |-> 0, height |-> 0]]

OverlayUnchanged ==
  /\ UNCHANGED <<acq, audio, reply>>
  /\ UNCHANGED <<sweep, cancelled, timeVars, camVars, svcVars, histVars, rendVars>>

\* the user picks the source to record, before a recording
SelectSource(src) ==
  /\ ~overlay.on
  /\ ~overlay.dragging
  /\ src # overlay.selectedSource
  /\ overlay' = [overlay EXCEPT !.selectedSource = src]
  /\ OverlayUnchanged

\* handlePointerMove of the preview: the 'webcam:position' event and its
\* listener in the hook
PointerMove(ratio) ==
  /\ overlay' = [overlay EXCEPT !.dragging = TRUE, !.livePositionRef = ratio,
                                !.eventSinceStart = TRUE]
  /\ overlay' # overlay
  /\ OverlayUnchanged

\* handlePointerUp of the preview: applySourcePosition and the last event
PointerUp ==
  /\ overlay.dragging
  /\ overlay' = [overlay EXCEPT
                   !.dragging = FALSE,
                   !.eventSinceStart = TRUE,
                   !.webcam.positionBySource[overlay.selectedSource] = overlay.livePositionRef]
  /\ OverlayUnchanged

\* startRecording: the configuration and the position of the source, as read
\* when the compositor is set up
StartOverlay ==
  /\ ~overlay.on
  /\ overlay.sessions < MaxOverlaySessions
  /\ overlay' = [overlay EXCEPT
                   !.on = TRUE,
                   !.sessions = @ + 1,
                   !.eventSinceStart = FALSE,
                   !.source = overlay.selectedSource,
                   !.sourcePosition = overlay.webcam.positionBySource[overlay.selectedSource],
                   !.adjusted = adjustedOverlayConfig(
                                  getWebcamOverlayConfig(overlay.displayId, overlay.webcam),
                                  overlay.canvas)]
  /\ OverlayUnchanged

\* drawFrame: the rectangle the webcam is drawn into on this tick
DrawOverlay ==
  /\ overlay.on
  /\ LET placed == placeBubble(overlay.canvas, overlay.adjusted,
                               effectivePosition(overlay.livePositionRef, overlay.sourcePosition))
     IN overlay' = [overlay EXCEPT !.drawn = TRUE, !.placed = placed,
                                   !.rect = shapeBubble(placed, overlay.adjusted.shape)]
  /\ overlay' # overlay
  /\ OverlayUnchanged

\* stopRecording: the render loop of the session is cancelled
StopOverlay ==
  /\ overlay.on
  /\ overlay' = [overlay EXCEPT !.on = FALSE, !.drawn = FALSE]
  /\ OverlayUnchanged

NextOverlay ==
  \/ \E src \in Sources : SelectSource(src)
  \/ \E ratio \in Ratios : PointerMove(ratio)
  \/ PointerUp
  \/ StartOverlay
  \/ DrawOverlay
  \/ StopOverlay

SpecOverlay == InitOverlay /\ [][NextOverlay]_vars


Next ==
  \/ Tick
  \/ StartRecording
  \/ \E p \in Starts : StartHideWebcam(p)
  \/ \E p \in Starts : StartAcquireScreen(p)
  \/ \E p \in Starts : StartFails(p)
  \/ \E p \in Starts : StartBegin(p)
  \/ \E i \in Starts : RecorderOnStart(i)
  \/ \E i \in Starts : DeliverChunk(i)
  \/ \E k \in 1..MaxChunks : ConvertDone(k)
  \/ PauseRecording
  \/ ResumeRecording
  \/ StopRecording
  \/ \E i \in Starts : TracksEnded(i)
  \/ Unmount
  \/ \E i \in Starts : StopTask(i)
  \/ \E i \in Starts : HandlerRestored(i)
  \/ \E i \in Starts : HandlerFinalizeReturn(i)
  \/ \E i \in Starts : HandlerDiscardReturn(i)
  \/ \E i \in Starts : HandlerSave(i)
  \/ \E i \in Starts : HandlerSaveReturn(i)

Spec == Init /\ [][Next]_vars

(* --------------------- one session and its stop handler ---------------- *)
\* the onstop handler installed by stopRecording: openWebcam, setWebcamVisible
\* or restoreWindowBounds rejects; the awaits are outside every try block, so
\* the handler ends there
HandlerRestoreThrows(i) ==
  /\ rec[i].hpc = "restore"
  /\ rec' = [rec EXCEPT ![i].hpc = "threw"]
  /\ UNCHANGED <<sweep, setupVars, cancelled, timeVars, camVars, svcVars, histVars, status,
                 mounted, startPc, liveStreams, screenStreamRef, streamRef, webcamHiddenRef,
                 mediaRecorderRef, recoveryIdRef, chunksRef, pendingConv, owner>>

\* the settling of the window-restore awaits of the handler, either way
HandlerRestoreSettles(i) == HandlerRestored(i) \/ HandlerRestoreThrows(i)

NextStop ==
  \/ startPc = <<>> /\ StartRecording
  \/ \E p \in Starts : StartHideWebcam(p)
  \/ \E p \in Starts : StartAcquireScreen(p)
  \/ \E p \in Starts : StartBegin(p)
  \/ \E i \in Starts : RecorderOnStart(i)
  \/ \E i \in Starts : DeliverChunk(i)
  \/ \E k \in 1..MaxChunks : ConvertDone(k)
  \/ StopRecording
  \/ \E i \in Starts : StopTask(i)
  \/ \E i \in Starts : HandlerRestored(i)
  \/ \E i \in Starts : HandlerRestoreThrows(i)
  \/ \E i \in Starts : HandlerFinalizeReturn(i)
  \/ \E i \in Starts : HandlerDiscardReturn(i)
  \/ \E i \in Starts : HandlerSave(i)
  \/ \E i \in Starts : HandlerSaveReturn(i)

SpecStop == Init /\ [][NextStop]_vars

\* the same, with the event loop running every queued task and every IPC
\* call settling
SpecStopFair ==
  /\ SpecStop
  /\ \A i \in Starts :
       /\ WF_vars(StopTask(i))
       /\ WF_vars(HandlerRestoreSettles(i))
       /\ WF_vars(HandlerFinalizeReturn(i))
       /\ WF_vars(HandlerDiscardReturn(i))
       /\ WF_vars(HandlerSave(i))
       /\ WF_vars(HandlerSaveReturn(i))


(* ----------------------------- properties ------------------------------ *)
FinalizeMoves(id, op) ==
  /\ id \in DOMAIN active
  /\ op \in inflight' \ inflight
  /\ op.kind = "finalize"
  /\ op.id = id

\* C1: the file a finalize moves into permanent storage is exactly the
\* concatenation, in call order, of the buffers appended to its id since
\* begin, and the size recorded for it is the sum of their lengths.
C1_FinalizedIsConcatenation ==
  [][\A id \in 1..MaxIdx : \A op \in inflight' :
       FinalizeMoves(id, op) =>
         /\ op.path \in DOMAIN permanent'
         /\ permanent'[op.path] = Flatten(appended[id])
         /\ op.size = SumLen(appended[id])]_vars

C1_Witness ==
  \E op \in inflight :
    /\ op.kind = "finalize"
    /\ Len(appended[op.id]) >= 2
    /\ op.size >= 2
    /\ \E i \in DOMAIN appended[op.id] : appended[op.id][i] = <<>>

\* C9: a successful finalize renames the scratch file: afterwards the scratch
\* path no longer exists, the output path alone received its bytes, no other
\* permanent file changed, and the id is no longer open.
C9_FinalizeMovesNotCopies ==
  [][\A id \in 1..MaxIdx : \A op \in inflight' :
       FinalizeMoves(id, op) =>
         /\ active[id] \notin DOMAIN scratch'
         /\ DOMAIN scratch' = (DOMAIN scratch) \ {active[id]}
         /\ id \notin DOMAIN active'
         /\ DOMAIN permanent' = (DOMAIN permanent) \cup {op.path}
         /\ permanent'[op.path] = scratch[active[id]]
         /\ \A p \in (DOMAIN permanent) \ {op.path} : permanent'[p] = permanent[p]]_vars

C9_Witness ==
  \E op \in inflight :
    /\ op.kind = "finalize"
    /\ op.path \in DOMAIN permanent
    /\ permanent[op.path] # <<>>
    /\ op.id \notin DOMAIN active
    /\ \A p \in DOMAIN scratch : p.id # op.id

\* C10: discard(id) on an id that finalize has already invalidated changes
\* nothing: no file is deleted, the catalog and the open sessions stay as
\* they were (the call itself always returns: discard has no throwing path).
C10_DiscardAfterFinalizeNoOp ==
  [][\A id \in FinalizedIds :
       (id \notin discarded /\ id \in discarded') =>
         UNCHANGED <<active, scratch, permanent, catalog, inflight>>]_vars

C10_Witness ==
  \E i \in DOMAIN catalog :
    /\ catalog[i].id \in discarded
    /\ catalog[i].path \in DOMAIN permanent
    /\ permanent[catalog[i].path] # <<>>

(* ------------------- properties of the recording session --------------- *)
Range(f) == {f[x] : x \in DOMAIN f}

IsPrefix(a, b) == Len(a) <= Len(b) /\ \A j \in DOMAIN a : a[j] = b[j]

\* the buffers of the chunks recorder i delivered, in delivery order
DeliveredBy(i) ==
  LET idx == SelectSeq([k \in 1..Len(owner) |-> k], LAMBDA k : owner[k] = i)
  IN [j \in DOMAIN idx |-> ChunkBytes(idx[j])]

PendingPcs == {"awaitFinalize", "awaitDiscard", "blobRead", "awaitSave"}

HandedOff(i) == rec[i].fin = "ok" \/ rec[i].sav = "ok" \/ rec[i].download

\* C2: the append calls of a session carry its chunks in delivery order, none
\* twice and none left out: the calls made so far are a prefix of the chunks
\* delivered, and while the recovery id is open and no conversion is pending
\* they are all of them.
C2_AppendsInDeliveryOrder ==
  \A i \in Starts :
    rec[i].rid # NoId =>
      /\ IsPrefix(appended[rec[i].rid], DeliveredBy(i))
      /\ (rec[i].rid \in DOMAIN active /\ pendingConv = {}) =>
           appended[rec[i].rid] = DeliveredBy(i)

\* C3: the file a stop finalizes holds every chunk the session delivered,
\* the final one included.
C3_FinalizeAfterAllAppends ==
  \A op \in inflight :
    (op.kind = "finalize" /\ op.from \in Starts) =>
      op.size = SumLen(DeliveredBy(op.from))

SessionOver(i) ==
  /\ rec[i].state = "inactive"
  /\ ~rec[i].stopping
  /\ rec[i].hpc \in {"none", "done"}

Persisted(k) ==
  \/ \E p \in DOMAIN scratch : k \in Range(scratch[p])
  \/ \E p \in DOMAIN permanent : k \in Range(permanent[p])
  \/ \E i \in Starts : rec[i].download /\ k \in Range(rec[i].blob)

\* C5: once a session is over, every chunk it delivered is in a file of the
\* scratch directory, in a file of permanent storage or in a download.
C5_NoFootageLost ==
  \A k \in DOMAIN owner :
    (SessionOver(owner[k]) /\ k \notin pendingConv) => Persisted(k)

\* C6 as claimed: while the stop handler's persistence is pending, the
\* session's capture source has not been released.
C6_SourcesHeldUntilHandOff ==
  \A i \in Starts : rec[i].hpc \in PendingPcs => i \in liveStreams

\* C6 as amended: the stop handler releases the capture sources held by the
\* hook in the step that starts persistence, and it ends (status idle) only
\* after the hand-off.
C6_ReleaseThenPersistThenIdle ==
  /\ [](\A i \in Starts : rec[i].hpc = "done" => HandedOff(i))
  /\ [][\A i \in Starts :
          (rec[i].hpc \notin PendingPcs /\ rec'[i].hpc \in PendingPcs) =>
            /\ streamRef' = 0
            /\ screenStreamRef' = 0
            /\ liveStreams' \cap {streamRef, screenStreamRef} = {}]_vars

C6_Witness ==
  \E i \in Starts :
    /\ rec[i].hpc = "awaitFinalize"
    /\ rec[i].fin = "sent"
    /\ i \notin liveStreams
    /\ streamRef = 0
    /\ status = "processing"

AllowedTransitions ==
  {<<"idle", "recording">>, <<"recording", "paused">>, <<"paused", "recording">>,
   <<"recording", "processing">>, <<"paused", "processing">>, <<"processing", "idle">>}

\* C7: status changes only along idle -> recording -> {paused <-> recording}
\* -> processing -> idle.
C7_StatusTransitions ==
  [][status' # status => <<status, status'>> \in AllowedTransitions]_vars

\* C8: at most one encoder is live and at most one recovery session is open.
C8_SingleSession ==
  /\ Cardinality({i \in Starts : rec[i].state \in {"recording", "paused"}}) <= 1
  /\ Cardinality(DOMAIN active) <= 1

(* --------------------- properties of the catalog ----------------------- *)
\* C11: a successful finalize(id, meta) registers exactly one catalog entry,
\* with the duration and quality passed and the byte length of the moved
\* file as fileSize; it does so whether or not the thumbnail was generated,
\* and no recovery id is ever registered twice.
C11_FinalizeRegistersOneEntry ==
  /\ [][\A op \in inflight :
          (op.kind = "finalize" /\ op \notin inflight') =>
            /\ Len(catalog') = Len(catalog) + 1
            /\ Tail(catalog') = catalog
            /\ Head(catalog').id = op.id
            /\ Head(catalog').path = op.path
            /\ Head(catalog').duration = op.meta.duration
            /\ Head(catalog').quality = op.meta.quality
            /\ Head(catalog').fileSize = op.size]_vars
  /\ [][\A id \in 1..MaxIdx : \A op \in inflight' :
          FinalizeMoves(id, op) =>
            /\ op.size = Len(permanent'[op.path])
            /\ catalog' = catalog]_vars
  /\ [](\A id \in 1..MaxIdx :
          Cardinality({i \in DOMAIN catalog : catalog[i].id = id}) <= 1)

C11_Witness ==
  \E i \in DOMAIN catalog :
    /\ catalog[i].id > 0
    /\ ~catalog[i].thumbnail
    /\ catalog[i].duration = 2
    /\ catalog[i].quality = "720p"
    /\ catalog[i].fileSize >= 1

\* C12: the startup scan moves every non-empty scratch file into permanent
\* storage and registers exactly one recovered entry for it, whose duration
\* is the probed one or 0 and whose size is the file's; empty files are left
\* alone, and a scan that follows with no session opened in between finds
\* nothing to register.
C12_SweepRecoversEachOrphanOnce ==
  /\ [][\A op \in sweep'.probing \ sweep.probing :
          /\ op.from \in NonEmptyOrphans
          /\ op.from \notin DOMAIN scratch'
          /\ permanent'[op.path] = scratch[op.from]
          /\ catalog' = catalog]_vars
  /\ [][\A op \in sweep.probing \ sweep'.probing :
          /\ Len(catalog') = Len(catalog) + 1
          /\ Tail(catalog') = catalog
          /\ Head(catalog').recovered
          /\ Head(catalog').path = op.path
          /\ Head(catalog').fileSize = op.size
          /\ Head(catalog').duration \in {0, ProbeDuration(permanent[op.path])}
          /\ \A i \in DOMAIN catalog : catalog[i].id # Head(catalog').id]_vars
  /\ [][(sweep.on /\ catalog' # catalog) => sweep.probing # sweep'.probing]_vars
  /\ [][(sweep.on /\ ~sweep'.on) =>
          (sweep.added = sweep.found /\ NonEmptyOrphans = {})]_vars
  /\ [][(~sweep.on /\ sweep'.on /\ active = <<>>) => sweep'.found = 0]_vars
  /\ [](sweep.added <= sweep.found)

C12_Witness ==
  /\ sweep.runs = 2
  /\ ~sweep.on
  /\ sweep.found = 0
  /\ \E i \in DOMAIN catalog : catalog[i].recovered /\ catalog[i].duration >= 1
  /\ \E i \in DOMAIN catalog : catalog[i].recovered /\ catalog[i].duration = 0

\* C13: every recording written into permanent storage (by finalize, by the
\* startup scan or by saveRecording) goes to a path no earlier recording was
\* written to, so no file of permanent storage is ever replaced.
C13_FreshPathPerRecording ==
  [][/\ \A op \in (inflight' \ inflight) \cup (sweep'.probing \ sweep.probing) :
          op.path \notin DOMAIN permanent
     /\ \A p \in DOMAIN permanent :
          p \in DOMAIN permanent' /\ permanent'[p] = permanent[p]]_vars

(* -------------------- properties of a failing start -------------------- *)
FailedStart(p) == p \in DOMAIN startPc /\ startPc[p] = "done" /\ rec[p].state = "none"

\* C14: a startRecording that fails before its encoder starts returns with
\* status idle, and no step of it sets any other status.
C14_FailedStartEndsIdle ==
  [][\A p \in DOMAIN startPc :
       (startPc[p] # "done" /\ startPc'[p] = "done" /\ rec'[p].state = "none") =>
         status' = "idle"]_vars

\* C15: after a failed startRecording nothing it acquired is still held: its
\* screen stream is released and every open recovery id belongs to an encoder.
C15_FailedStartRollsBack ==
  \A p \in DOMAIN startPc :
    FailedStart(p) =>
      /\ p \notin liveStreams
      /\ \A id \in DOMAIN active :
           \E i \in Starts : rec[i].state # "none" /\ rec[i].rid = id

\* C16: a startRecording that was still in progress when stopRecording was
\* called creates no encoder afterwards, and once it has ended the screen
\* stream it acquired is released.
C16_StopCancelsPendingStart ==
  \A p \in cancelled :
    /\ rec[p].state = "none"
    /\ startPc[p] = "done" => p \notin liveStreams

(* ----------------------- properties of the timer ----------------------- *)
\* C18: the duration shown for the session never exceeds the time elapsed
\* since the encoder started minus the time it spent paused.
C18_DurationExcludesPause ==
  (/\ mediaRecorderRef # 0
   /\ rec[mediaRecorderRef].started
   /\ rec[mediaRecorderRef].state \in {"recording", "paused"}) =>
    duration <= now - startTimeRef - pausedFor

\* C17: once a session, the only one started so far, has been stopped and the
\* hook is idle again, nothing acquired for it is still live: neither its
\* screen stream nor any webcam stream its compositor obtained, one obtained
\* by a reacquire that was in flight when stop ran included.
C17_NoSourceOutlivesSession ==
  (Len(startPc) = 1 /\ rec[1].hpc = "done" /\ status = "idle") =>
    (1 \notin liveStreams /\ comp[1].listens \cap liveCams = {})

\* C19: while a session with the webcam overlay is recording or paused, the
\* render loop of its compositor is the one scheduled.
C19_RenderLoopRunsWhileRecording ==
  \A p \in DOMAIN startPc :
    (comp[p].stage = "on" /\ rec[p].state \in {"recording", "paused"}) =>
      animationFrameRef = p

\* C20: at most one webcam reacquire is in flight at any time.
C20_OneReacquireInFlight ==
  Cardinality({p \in DOMAIN startPc : comp[p].webcamRefreshInFlight}) <= 1


\* a step on which the watchdog of p starts a reacquire attempt
AttemptStarts(p) == ~comp[p].webcamRefreshInFlight /\ comp'[p].webcamRefreshInFlight

StaleFor(p) ==
  /\ comp[p].stage = "on"
  /\ animationFrameRef = p
  /\ ~comp[p].newFrame
  /\ perf - comp[p].lastWebcamFrameAt > STALE_AFTER
  /\ ~comp[p].webcamRefreshInFlight
  /\ perf >= comp[p].webcamRefreshCooldownUntil

C23_InstallBeforeRelease ==
  [][\A p \in Starts :
       /\ (comp[p].refreshPc = "acquiring" /\ comp'[p].refreshPc = "playing") =>
            /\ liveCams \subseteq liveCams'
            /\ webcamStreamRef' \in liveCams' \ liveCams
            /\ comp'[p].srcObject = webcamStreamRef'
       /\ (comp[p].refreshPc # "idle" /\ comp'[p].refreshPc # comp[p].refreshPc) =>
            \A s \in liveCams \ liveCams' :
              s # webcamStreamRef /\ s # comp[p].srcObject]_vars

\* a reacquire has completed: the compositor plays the new stream, which is
\* live and is the webcam handle, and the stream it replaced is stopped
C23_Witness ==
  \E p \in Starts :
    /\ comp[p].refreshPc = "idle"
    /\ comp[p].endedAt >= 0
    /\ comp[p].srcObject = webcamStreamRef
    /\ webcamStreamRef \in liveCams
    /\ comp[p].listens \ liveCams # {}
    /\ rec[p].state = "recording"


\* C25: when the webcam overlay cannot be set up at start (every constraint
\* set refused, or a later step of the set-up failing), the start goes on:
\* the webcam handle is stopped and cleared, the start is not aborted, and
\* the encoder it creates records the screen stream's own video track.
C25_WebcamFailureFallsBackToScreen ==
  /\ [][\A p \in Starts :
          (comp[p].stage # "failed" /\ comp'[p].stage = "failed") =>
            /\ webcamStreamRef' = 0
            /\ webcamStreamRef \notin liveCams'
            /\ startPc'[p] = "begin"
            /\ status' = status]_vars
  /\ [](\A p \in Starts :
          (comp[p].stage = "failed" /\ rec[p].state # "none") => rec[p].video = "screen")

\* a start whose webcam acquisition failed is recording the screen alone
C25_Witness ==
  \E p \in Starts :
    /\ comp[p].acquireFailed
    /\ rec[p].state = "recording"
    /\ rec[p].started
    /\ rec[p].video = "screen"
    /\ status = "recording"
    /\ webcamStreamRef = 0

\* C26: a start whose webcam acquisition failed has not issued the overlay
\* geometry query getWebcamOverlayConfig.
C26_NoGeometryQueryWhenWebcamFails ==
  \A p \in Starts : comp[p].acquireFailed => ~comp[p].overlayQueried


\* C24: getWebcamStream asks for the preferred resolution, then the reduced
\* resolution, then the device default; it returns the first stream it gets
\* and asks for nothing after it; it fails only when all three were refused,
\* and then with the error of the last one; whoever the caller is.
C24_ConstraintSetsInOrder ==
  acq.done =>
    LET order == <<"ideal1280x720", "ideal640x360", "deviceDefault">>
        ok == {k \in 1..3 : acq.device[k] = "ok"}
    IN IF ok = {}
         THEN acq.got = "none" /\ acq.tried = order /\ acq.error = acq.device[3]
         ELSE LET first == CHOOSE k \in ok : \A j \in ok : k <= j
              IN /\ acq.got = order[first]
                 /\ acq.tried = SubSeq(order, 1, first)
                 /\ acq.error = "none"

\* the watchdog's call got the reduced resolution after the preferred one was
\* refused, on a device that would also have given its default
C24_Witness ==
  /\ acq.done
  /\ acq.caller = "refresh"
  /\ acq.device[1] # "ok" /\ acq.device[2] = "ok" /\ acq.device[3] = "ok"
  /\ acq.got = "ideal640x360"


\* C27: no outcome of the audio block aborts the start: whether system audio
\* or the microphone is refused, and whether the mixing graph can be built,
\* the start stays on its way to the encoder with the status untouched, and
\* the encoder gets the tracks of the sources that were acquired.
C27_AudioFailureNeverAborts ==
  /\ [][\A p \in Starts :
          audio'[p] # audio[p] =>
            /\ startPc'[p] = "begin"
            /\ status' = status
            /\ liveStreams' = liveStreams]_vars
  /\ [](\A p \in Starts :
          rec[p].state # "none" =>
            /\ audio[p].pc = "done"
            /\ rec[p].tracks = audio[p].tracks
            /\ (audio[p].sources = <<>> <=> rec[p].tracks = {}))

\* a session is recording without audio after system audio and the
\* microphone were both asked for and refused
C27_Witness ==
  \E p \in Starts :
    /\ audio[p].asked = {"system", "mic"}
    /\ audio[p].sources = <<>>
    /\ rec[p].state = "recording"
    /\ rec[p].started
    /\ status = "recording"

\* C28: the audio of the recorded stream follows the number of sources
\* acquired: none, no track and no graph; one, the tracks of that source and
\* no graph; two, the one mixed track of the graph, or, when building the
\* graph threw, the tracks of the source acquired first.
C28_AudioBySourceCount ==
  \A p \in Starts :
    audio[p].pc = "done" =>
      LET n == Len(audio[p].sources)
      IN /\ n = 0 => (audio[p].tracks = {} /\ ~audio[p].graph)
         /\ n = 1 => (audio[p].tracks = {audio[p].sources[1]} /\ ~audio[p].graph)
         /\ (n = 2 /\ ~audio[p].mixError) => (audio[p].tracks = {"mixed"} /\ audio[p].graph)
         /\ (n = 2 /\ audio[p].mixError) => audio[p].tracks = {audio[p].sources[1]}
         /\ audio[p].mixError => n = 2

\* two sources were acquired, the graph could not be built, and the encoder
\* records the system audio alone
C28_Witness ==
  \E p \in Starts :
    /\ audio[p].sources = <<"system", "mic">>
    /\ audio[p].mixError
    /\ rec[p].state = "recording"
    /\ rec[p].tracks = {"system"}


(* ------------------------------ C29, C30 ------------------------------- *)
\* C29: for the shape circle the rectangle the webcam bubble is drawn into is
\* a square whose side is the smaller of the configured width and height, and
\* its centre is the centre of the configured rectangle (to the pixel: the
\* offset is rounded, so twice the centres differ by at most one)
C29_CircleIsCentredSquare ==
  (overlay.drawn /\ overlay.adjusted.shape = "circle") =>
    LET configuredWidth == overlay.adjusted.width
        configuredHeight == overlay.adjusted.height
        side == Min(configuredWidth, configuredHeight)
    IN /\ overlay.rect.width = side
       /\ overlay.rect.height = side
       /\ (2 * overlay.rect.x + side) - (2 * overlay.placed.x + configuredWidth) \in {0, 1}
       /\ (2 * overlay.rect.y + side) - (2 * overlay.placed.y + configuredHeight) \in {0, 1}

\* a circular bubble was drawn from a rectangle that is not square and was moved
C29_Witness ==
  /\ overlay.drawn
  /\ overlay.adjusted.shape = "circle"
  /\ overlay.adjusted.width < overlay.adjusted.height
  /\ overlay.rect.y > overlay.placed.y

\* the position the order of the layers gives on a tick: the ratio of a drag
\* that is going on, else the stored position of the recorded source, else
\* the position of the configuration
PositionByPrecedence(o) ==
  LET stored == o.webcam.positionBySource[o.source]
      layer == IF o.dragging /\ o.livePositionRef.set THEN o.livePositionRef
               ELSE IF stored.set THEN stored
               ELSE NoPos
  IN placeBubble(o.canvas, o.adjusted, layer)

\* C30: the position used on a render tick is the first present of the live
\* ratio of an active drag, the per-source override, the per-display override
\* and the global default
C30_FirstMatchWins ==
  [][(overlay'.drawn /\ (~overlay.drawn \/ overlay'.placed # overlay.placed))
       => overlay'.placed = PositionByPrecedence(overlay)]_vars


(* ------------------------------ C31 .. C39 ----------------------------- *)
\* the titles of the toasts startRecording shows for a refused audio source
AudioToasts == {"System audio unavailable", "Microphone unavailable"}

\* C31: every degrade path taken at start (webcam overlay dropped, system
\* audio refused, microphone refused, mixing graph failed) has shown a
\* report of its own, distinct from the reports of the other paths
C31_EveryDegradeReported ==
  \A p \in DOMAIN startPc :
    audio[p].pc = "done" =>
      /\ "system" \in audio[p].failed => "System audio unavailable" \in audio[p].toasts
      /\ "mic" \in audio[p].failed => "Microphone unavailable" \in audio[p].toasts
      /\ "mix" \in audio[p].failed => \E t \in audio[p].toasts : t \notin AudioToasts
      /\ comp[p].stage = "failed" => \E t \in audio[p].toasts : t \notin AudioToasts


\* C32: every stopRecording on an active encoder is followed by the status
\* idle, whichever step of its stop handler fails (the window-restore calls,
\* finalize, discard, saveRecording or the download)
C32_StopReturnsToIdle == (status = "processing") ~> (status = "idle")


\* C33: the stored status agrees with the encoder: while a MediaRecorder
\* started by the hook is recording the status is recording, and while it is
\* paused the status is paused (never idle or processing), once its onstart
\* callback has run
C33_StatusAgreesWithEncoder ==
  \A i \in Starts :
    rec[i].started =>
      /\ rec[i].state = "recording" => status = "recording"
      /\ rec[i].state = "paused" => status = "paused"


\* C34: append and finalize on an id that is not open (never begun, already
\* finalized, or discarded) change nothing: append returns silently, finalize
\* raises 'Recovery session not found', and the files, the catalog, the
\* permanent storage and the set of open sessions stay as they were
C34_CallsOnClosedIdChangeNothing ==
  [][(reply' # reply /\ reply'.id \notin DOMAIN active) =>
       /\ UNCHANGED <<active, scratch, permanent, catalog, inflight>>
       /\ reply'.op = "append" => reply'.error = "none"
       /\ reply'.op = "finalize" => reply'.error = "Recovery session not found"]_vars

\* both calls have been made on ids that are not open: an append to a
\* discarded id and, last, a finalize of an id that was already finalized
C34_Witness ==
  /\ reply.op = "finalize"
  /\ reply.error = "Recovery session not found"
  /\ reply.id \in FinalizedIds
  /\ \E id \in discarded : id \notin DOMAIN active /\ appended[id] # <<>>


\* C35: on every render tick on which the webcam is drawn the rectangle of
\* the bubble lies inside the output surface, for every stored geometry,
\* every live drag ratio and every shape
C35_BubbleInsideCanvas ==
  overlay.drawn =>
    /\ 0 <= overlay.rect.x
    /\ 0 <= overlay.rect.y
    /\ overlay.rect.x + overlay.rect.width <= overlay.canvas.width
    /\ overlay.rect.y + overlay.rect.height <= overlay.canvas.height

\* a bubble was drawn from a stored geometry that lies outside the canvas, to
\* the right of it and above it
C35_Witness ==
  /\ overlay.drawn
  /\ overlay.adjusted.x > overlay.canvas.width
  /\ overlay.adjusted.y < 0
  /\ ~overlay.livePositionRef.set
  /\ ~overlay.sourcePosition.set
  /\ overlay.placed.x = overlay.canvas.width - overlay.placed.width
  /\ overlay.placed.y = 0


\* C36: a live drag ratio received before or during one session does not
\* carry over to a later session: until a drag event arrives in the new
\* session the bubble is placed from the committed geometry of the source
\* selected for it
C36_LiveRatioEndsWithSession ==
  [][(/\ overlay'.drawn
      /\ ~overlay.drawn \/ overlay'.placed # overlay.placed
      /\ overlay.sessions >= 2
      /\ ~overlay.dragging
      /\ ~overlay.eventSinceStart)
       => overlay'.placed = placeBubble(overlay.canvas, overlay.adjusted,
                                        overlay.webcam.positionBySource[overlay.source])]_vars


\* C37: a session whose beginRecordingRecovery failed records with no
\* recovery id: no chunk its encoder delivers is handed to an append call,
\* and its stop handler calls neither finalize nor discard but saves the
\* buffered chunks through saveRecording
C37_NoRecoveryFallsBackToSave ==
  \A i \in Starts :
    (rec[i].state # "none" /\ rec[i].rid = NoId) =>
      /\ \A k \in pendingConv : owner[k] # i
      /\ rec[i].fin = "none"
      /\ ~rec[i].discardCalled
      /\ rec[i].hpc \in {"awaitSave", "done"} => rec[i].sav # "none"

\* C38: when a watchdog reacquire fails on every constraint set, the webcam
\* stream installed before the attempt stays the session handle and the
\* input of the compositor and is not released; only the cooldown and the
\* staleness clock are updated
C38_FailedReacquireKeepsStream ==
  [][\A p \in Starts :
       (comp[p].refreshPc = "acquiring" /\ comp'[p].refreshPc = "idle") =>
         /\ UNCHANGED <<webcamStreamRef, liveCams, nextCam>>
         /\ comp'[p] = [comp[p] EXCEPT !.lastWebcamFrameAt = perf,
                                       !.webcamRefreshCooldownUntil = perf + COOLDOWN,
                                       !.webcamRefreshInFlight = FALSE,
                                       !.endedAt = perf,
                                       !.refreshPc = "idle"]]_vars

\* a reacquire has failed (a cooldown is set, no second stream was ever
\* handed out) and the first stream is still live, the session handle and
\* the input of the compositor
C38_Witness ==
  \E p \in Starts :
    /\ comp[p].stage = "on"
    /\ comp[p].refreshPc = "idle"
    /\ comp[p].webcamRefreshCooldownUntil > 0
    /\ nextCam = 2
    /\ webcamStreamRef = 1
    /\ comp[p].srcObject = 1
    /\ 1 \in liveCams


\* C39: recoverOrphaned, whenever it runs, never moves the scratch file of a
\* recovery session that is open
C39_SweepSparesOpenSessions ==
  [][(sweep.on /\ sweep' # sweep) =>
       \A id \in DOMAIN active :
         active[id] \in DOMAIN scratch => active[id] \in DOMAIN scratch']_vars


====
